---- MODULE Spec2Model ----
(***************************************************************************)
(* BunProxy: TCP/UDP forwarder with PROXY protocol v2, a notification      *)
(* aggregator and a pending-connection buffer.                             *)
(*                                                                         *)
(* The orchestrator source (index.ts) is the TypeScript that follows the   *)
(* prose in src/README.md (line 96 onwards); the services are in           *)
(* src/unnamed/part_000 (discordEmbed, managementAPI, PPv2 codec),        *)
(* src/unnamed/part_001 (playerIPMapper, connectionBuffer) and             *)
(* src/services.                                                           *)
(*                                                                         *)
(* Time is the millisecond clock `now`.  A timer is a deadline; a timer    *)
(* callback may run once now >= deadline, and the clock does not pass a    *)
(* deadline while its timer is still armed (timers are punctual, I/O       *)
(* handlers may still run at the very instant of a deadline, before the    *)
(* timer callback).                                                        *)
(***************************************************************************)
EXTENDS Integers, Sequences, FiniteSets, TLC

VARIABLES
    now,                \* Date.now(), ms
    \* ---- notification aggregator (index.ts)
    groupedClients,     \* Map groupKey -> Map ip -> Set port   (connects)
    groupTimers,        \* Map groupKey -> timer (its deadline)
    groupedDisconnects, \* Map groupKey -> Map ip -> Set port   (disconnects)
    disconnectTimers,   \* Map groupKey -> timer (its deadline)
    aggHist,            \* history: every add call and every grouped embed sent
    \* ---- ConnectionBuffer (services/connectionBuffer.ts)
    pending,            \* Map key -> PendingConnection, in insertion order
    pendingTimers,      \* the setTimeout timers addPending has scheduled
    pendHist,           \* history: addPending calls, callbacks run, matches returned
    \* ---- configuration (config.yml)
    rule,               \* the ListenerRule: haproxy, webhook, target host
    useRestApi,         \* correlation mode
    \* ---- UDP forwarder (index.ts, startUdpProxy)
    sessions,           \* Map sessionKey -> Session (the index of the object)
    sessionObjs,        \* the Session objects ever created, by index
    sockets,            \* the egress dgram sockets ever created, by index
    udpTimers,          \* the armed idle timers (setTimeout not yet fired or cleared)
    udpInFlight,        \* destSocket.send calls whose callback has not run yet
    udpDns,             \* sessions whose dns.promises.lookup has not settled yet
    udpHist,            \* history: datagrams received and sent, latches, evictions
    \* ---- TCP forwarder (index.ts, startTcpProxy)
    conn,               \* one accepted connection: the closure of the connection handler
    \* ---- TimestampPlayerMapper (services/timestampPlayerMapper.ts)
    playerMap,          \* Map timestamp -> {username, timestamp}, in insertion order
    sweepTimers,        \* the setInterval of main(): its next deadline
    mapRet,             \* the latest call made on the mapper, and what it returned
    \* ---- PlayerIPMapper (services/playerIPMapper.ts)
    storage,            \* Map username -> PlayerIPRecord, in insertion order
    file,               \* the document at filePath
    enabled,            \* savePlayerIP
    ipHist,             \* the latest call made, and the latest register call per username
    \* ---- management API (services/managementAPI.ts)
    webhooks,           \* the webhooks main() hands to startManagementAPI
    apiHist,            \* the latest request: its response and the embeds it sent
    \* ---- PPv2 codec (services/proxyProtocolBuilder.ts, proxyProtocolParser.ts)
    codec               \* one encoder call: its arguments, its result, and the parses of it

aggVars == <<groupedClients, groupTimers, groupedDisconnects, disconnectTimers, aggHist>>

pendVars == <<pending, pendingTimers, pendHist>>

cfgVars == <<rule, useRestApi>>

udpVars == <<sessions, sessionObjs, sockets, udpTimers, udpInFlight, udpDns, udpHist>>

tcpVars == <<conn>>

mapVars == <<playerMap, sweepTimers, mapRet>>

\* the services behind the management API
ipVars == <<storage, file, enabled, ipHist>>

apiVars == <<webhooks, apiHist>>

codecVars == <<codec>>

svcVars == <<mapVars, ipVars, apiVars, codecVars>>

\* what an aggregator step, a buffer step, a UDP step, a TCP step leaves alone
notAgg == <<pendVars, cfgVars, udpVars, tcpVars, svcVars>>

notPend == <<aggVars, cfgVars, udpVars, tcpVars, svcVars>>

notUdp == <<cfgVars, tcpVars, svcVars>>

notTcp == <<cfgVars, udpVars, svcVars>>

-----------------------------------------------------------------------------
(* Generic helpers: JS Map / Set keep insertion order.                     *)

Range(s) == {s[i] : i \in 1..Len(s)}

Min(S) == CHOOSE x \in S : \A y \in S : x <= y

\* Set.prototype.add on an insertion-ordered set
SetAdd(s, x) == IF x \in Range(s) THEN s ELSE Append(s, x)

\* Map.prototype.delete on a map held as a function
MapDelete(m, k) == [x \in (DOMAIN m) \ {k} |-> m[x]]

\* Map.prototype.set on a map held as a function
MapSet(m, k, v) == [x \in (DOMAIN m) \cup {k} |-> IF x = k THEN v ELSE m[x]]

\* the empty Map
EmptyMap == [x \in {} |-> 0]

\* Array.prototype.sort((a, b) => a - b): insert each element in turn
RECURSIVE InsertSorted(_, _)
InsertSorted(s, x) ==
    IF s = <<>> THEN <<x>>
    ELSE IF x <= Head(s) THEN <<x>> \o s
    ELSE <<Head(s)>> \o InsertSorted(Tail(s), x)

RECURSIVE SortAscFrom(_, _)
SortAscFrom(acc, s) ==
    IF s = <<>> THEN acc ELSE SortAscFrom(InsertSorted(acc, Head(s)), Tail(s))

\* sort() left out
SortAsc_none(s) == s

SortAsc(s) == SortAscFrom(<<>>, s)

-----------------------------------------------------------------------------
(* Notification aggregator.  Strings are sequences of tokens; the token    *)
(* "::" is the separator makeGroupKey inserts and flushGroup splits on.    *)

GROUP_WINDOW_MS == 3000

SEP == "::"

makeGroupKey(webhook, protocol, targetKey) ==
    webhook \o <<SEP>> \o <<protocol>> \o <<SEP>> \o targetKey

\* String.prototype.split('::'): the parts between separators
RECURSIVE SplitFrom(_, _, _)
SplitFrom(parts, cur, s) ==
    IF s = <<>> THEN Append(parts, cur)
    ELSE IF Head(s) = SEP THEN SplitFrom(Append(parts, cur), <<>>, Tail(s))
    ELSE SplitFrom(parts, Append(cur, Head(s)), Tail(s))

Split(s) == SplitFrom(<<>>, <<>>, s)

\* Array.prototype.join('::')
RECURSIVE Join(_)
Join(parts) ==
    IF parts = <<>> THEN <<>>
    ELSE IF Len(parts) = 1 THEN parts[1]
    ELSE parts[1] \o <<SEP>> \o Join(Tail(parts))

\* map.has(ip) / map.get(ip) on the inner Map ip -> Set port, kept as the
\* insertion-ordered sequence of its entries
IpIndex(map, ip) == {i \in 1..Len(map) : map[i].ip = ip}

\* if (!map.has(ip)) map.set(ip, new Set()); map.get(ip).add(port)
IpMapAdd(map, ip, port) ==
    IF IpIndex(map, ip) = {}
    THEN Append(map, [ip |-> ip, ports |-> <<port>>])
    ELSE [map EXCEPT ![CHOOSE i \in IpIndex(map, ip) : TRUE].ports = SetAdd(@, port)]

\* for (const [ip, portsSet] of map.entries()) groups.push({ip, ports: sorted})
GroupsOf(map) == [i \in 1..Len(map) |-> [ip |-> map[i].ip, ports |-> SortAsc(map[i].ports)]]

HistAdd(fam, key, ip, port) ==
    [op |-> "add", fam |-> fam, key |-> key, ip |-> ip, port |-> port, at |-> now,
     webhook |-> <<>>, protocol |-> <<>>, target |-> <<>>, groups |-> <<>>]

\* an insertion with the webhook, protocol and target it was called with
HistCall(fam, key, ip, port, webhook, protocol, targetKey) ==
    [HistAdd(fam, key, ip, port) EXCEPT !.webhook = webhook, !.protocol = <<protocol>>,
                                        !.target = targetKey]

HistFlush(fam, key, webhook, protocol, target, groups) ==
    [op |-> "flush", fam |-> fam, key |-> key, ip |-> "", port |-> 0, at |-> now,
     webhook |-> webhook, protocol |-> protocol, target |-> target, groups |-> groups]

\* a timer handle: its deadline and whether it can still fire
Timer(deadline) == [at |-> deadline, armed |-> TRUE]

\* the deadlines of the armed timers of a Map key -> timer
ArmedDeadlines(timers) == {timers[k].at : k \in {x \in DOMAIN timers : timers[x].armed}}

\* a timer of the Map is due
Due(timers, k) == k \in DOMAIN timers /\ timers[k].armed /\ now >= timers[k].at

\* addToConnectGroup restarting the window on every insertion
addToConnectGroup_restart(webhook, targetKey, ip, port, protocol) ==
    LET groupKey == makeGroupKey(webhook, protocol, targetKey)
        map == IF groupKey \in DOMAIN groupedClients THEN groupedClients[groupKey] ELSE <<>>
    IN  /\ groupedClients' = MapSet(groupedClients, groupKey, IpMapAdd(map, ip, port))
        /\ groupTimers' = MapSet(groupTimers, groupKey, Timer(now + GROUP_WINDOW_MS))
        /\ aggHist' = Append(aggHist, HistCall("connect", groupKey, ip, port, webhook, protocol, targetKey))

addToConnectGroup(webhook, targetKey, ip, port, protocol) ==
    LET groupKey == makeGroupKey(webhook, protocol, targetKey)
        map == IF groupKey \in DOMAIN groupedClients THEN groupedClients[groupKey] ELSE <<>>
    IN  /\ groupedClients' = MapSet(groupedClients, groupKey, IpMapAdd(map, ip, port))
        /\ groupTimers' = IF groupKey \in DOMAIN groupTimers THEN groupTimers
                          ELSE MapSet(groupTimers, groupKey, Timer(now + GROUP_WINDOW_MS))
        /\ aggHist' = Append(aggHist, HistCall("connect", groupKey, ip, port, webhook, protocol, targetKey))

\* addToDisconnectGroup without the setTimeout
addToDisconnectGroup_notimer(webhook, targetKey, ip, port, protocol) ==
    LET groupKey == makeGroupKey(webhook, protocol, targetKey)
        map == IF groupKey \in DOMAIN groupedDisconnects THEN groupedDisconnects[groupKey] ELSE <<>>
    IN  /\ groupedDisconnects' = MapSet(groupedDisconnects, groupKey, IpMapAdd(map, ip, port))
        /\ disconnectTimers' = disconnectTimers
        /\ aggHist' = Append(aggHist, HistCall("disconnect", groupKey, ip, port, webhook, protocol, targetKey))

addToDisconnectGroup(webhook, targetKey, ip, port, protocol) ==
    LET groupKey == makeGroupKey(webhook, protocol, targetKey)
        map == IF groupKey \in DOMAIN groupedDisconnects THEN groupedDisconnects[groupKey] ELSE <<>>
    IN  /\ groupedDisconnects' = MapSet(groupedDisconnects, groupKey, IpMapAdd(map, ip, port))
        /\ disconnectTimers' = IF groupKey \in DOMAIN disconnectTimers THEN disconnectTimers
                               ELSE MapSet(disconnectTimers, groupKey, Timer(now + GROUP_WINDOW_MS))
        /\ aggHist' = Append(aggHist, HistCall("disconnect", groupKey, ip, port, webhook, protocol, targetKey))

\* flushGroup sending the embed and cancelling the timer but keeping the bucket
flushGroup_keep(groupKey) ==
    LET parts == Split(groupKey)
    IN  /\ groupKey \in DOMAIN groupedClients
        /\ aggHist' = Append(aggHist, HistFlush("connect", groupKey, parts[1], parts[2],
                                 Join(SubSeq(parts, 3, Len(parts))),
                                 GroupsOf(groupedClients[groupKey])))
        /\ groupedClients' = groupedClients
        /\ groupTimers' = MapDelete(groupTimers, groupKey)

\* flushGroup, run by the bucket's timer (the only caller).  On the early
\* return the fired timer stays in groupTimers and cannot fire again.
flushGroup(groupKey) ==
    LET parts == Split(groupKey)
        webhook == parts[1]
        protocol == parts[2]
        target == Join(SubSeq(parts, 3, Len(parts)))
    IN  IF groupKey \notin DOMAIN groupedClients
        THEN /\ groupTimers' = [groupTimers EXCEPT ![groupKey].armed = FALSE]
             /\ UNCHANGED <<groupedClients, aggHist>>
        ELSE /\ aggHist' = Append(aggHist, HistFlush("connect", groupKey, webhook, protocol,
                                                     target, GroupsOf(groupedClients[groupKey])))
             /\ groupedClients' = MapDelete(groupedClients, groupKey)
             /\ groupTimers' = MapDelete(groupTimers, groupKey)

flushDisconnectGroup(groupKey) ==
    LET parts == Split(groupKey)
        webhook == parts[1]
        protocol == parts[2]
        target == Join(SubSeq(parts, 3, Len(parts)))
    IN  IF groupKey \notin DOMAIN groupedDisconnects
        THEN /\ disconnectTimers' = [disconnectTimers EXCEPT ![groupKey].armed = FALSE]
             /\ UNCHANGED <<groupedDisconnects, aggHist>>
        ELSE /\ aggHist' = Append(aggHist, HistFlush("disconnect", groupKey, webhook, protocol,
                                                     target, GroupsOf(groupedDisconnects[groupKey])))
             /\ groupedDisconnects' = MapDelete(groupedDisconnects, groupKey)
             /\ disconnectTimers' = MapDelete(disconnectTimers, groupKey)

\* setTimeout(() => flushGroup(groupKey), GROUP_WINDOW_MS) fires
GroupTimerFire ==
    \E k \in DOMAIN groupTimers :
        /\ Due(groupTimers, k)
        /\ flushGroup(k)
        /\ UNCHANGED <<now, groupedDisconnects, disconnectTimers, notAgg>>

\* setTimeout(() => flushDisconnectGroup(groupKey), GROUP_WINDOW_MS) fires
DisconnectTimerFire ==
    \E k \in DOMAIN disconnectTimers :
        /\ Due(disconnectTimers, k)
        /\ flushDisconnectGroup(k)
        /\ UNCHANGED <<now, groupedClients, groupTimers, notAgg>>

-----------------------------------------------------------------------------
(* ConnectionBuffer.  An entry is one PendingConnection object; `id` is    *)
(* its identity (the n-th addPending call created entry n).                *)

BUFFER_TIMEOUT_MS == 30000

TOLERANCE_MS == 30000

Abs(x) == IF x < 0 THEN -x ELSE x

\* const key = `${ip}:${port}:${protocol}`
PendingKey(ip, port, protocol) == <<ip, port, protocol>>

\* the position of a key in the Map (empty: absent)
KeyIndex(map, key) == {i \in 1..Len(map) : map[i].key = key}

PendingHas(map, key) == KeyIndex(map, key) # {}

PendingGet(map, key) == map[CHOOSE i \in KeyIndex(map, key) : TRUE]

\* Map.prototype.set: a new key goes last, an existing key keeps its place
PendingSet(map, key, entry) ==
    IF PendingHas(map, key)
    THEN [map EXCEPT ![CHOOSE i \in KeyIndex(map, key) : TRUE] = entry]
    ELSE Append(map, entry)

\* Map.prototype.delete
PendingDelete(map, key) == LET Other(e) == e.key # key IN SelectSeq(map, Other)

NumPendingAdds == Cardinality({i \in 1..Len(pendHist) : pendHist[i].op = "add"})

PendEvent(op, id, timer, ts, stillInMap, matched, unmatched) ==
    [op |-> op, id |-> id, timer |-> timer, at |-> now, ts |-> ts,
     stillInMap |-> stillInMap, matched |-> matched, unmatched |-> unmatched]

\* addPending(ip, port, protocol, target, processCallback)
addPending(ip, port, protocol, target) ==
    LET key == PendingKey(ip, port, protocol)
        id == NumPendingAdds + 1
        entry == [key |-> key, id |-> id, ip |-> ip, port |-> port, protocol |-> protocol,
                  timestamp |-> now, target |-> target]
    IN  /\ pending' = PendingSet(pending, key, entry)
        /\ pendingTimers' = pendingTimers \cup {[id |-> id, key |-> key, at |-> now + BUFFER_TIMEOUT_MS]}
        /\ pendHist' = Append(pendHist, PendEvent("add", id, id, now, TRUE, <<>>, <<>>))

\* the setTimeout callback of addPending: timer t fires
PendingTimeout(t) ==
    /\ pendingTimers' = pendingTimers \ {t}
    /\ IF PendingHas(pending, t.key)
       THEN LET p == PendingGet(pending, t.key)
                after == PendingDelete(pending, t.key)
            IN  /\ pending' = after
                \* p.processCallback() - no player name
                /\ pendHist' = Append(pendHist, PendEvent("timeout", p.id, t.id, 0,
                                                PendingHas(after, t.key), <<>>, <<>>))
       ELSE /\ pendHist' = Append(pendHist, PendEvent("expired", 0, t.id, 0, FALSE, <<>>, <<>>))
            /\ UNCHANGED pending

\* the comparison with the bound included
IsMatch_closed(p, timestamp) == Abs(p.timestamp - timestamp) <= TOLERANCE_MS

\* the loop of processPendingForPlayer: matched entries, in Map order
IsMatch(p, timestamp) == Abs(p.timestamp - timestamp) < TOLERANCE_MS

MatchedOf(map, timestamp) == LET M(p) == IsMatch(p, timestamp) IN SelectSeq(map, M)

RemainingOf(map, timestamp) == LET U(p) == ~IsMatch(p, timestamp) IN SelectSeq(map, U)

\* processPendingForPlayer returning the matches without deleting them
processPendingForPlayer_keep(playerName, timestamp) ==
    /\ pending' = pending
    /\ pendHist' = Append(pendHist, PendEvent("process", 0, 0, timestamp,
                              \E i \in 1..Len(pending) : IsMatch(pending[i], timestamp),
                              MatchedOf(pending, timestamp), pending))
    /\ UNCHANGED pendingTimers

\* processPendingForPlayer(_playerName, timestamp): the event records the
\* returned {matched, unmatched} and whether a matched entry is still stored
processPendingForPlayer(playerName, timestamp) ==
    LET matched == MatchedOf(pending, timestamp)
        after == RemainingOf(pending, timestamp)
    IN  /\ pending' = after
        /\ pendHist' = Append(pendHist, PendEvent("process", 0, 0, timestamp,
                                  \E i \in 1..Len(matched) : PendingHas(after, matched[i].key),
                                  matched, after))
        /\ UNCHANGED pendingTimers

PendingTimerFire ==
    \E t \in pendingTimers :
        /\ now >= t.at
        /\ PendingTimeout(t)
        /\ UNCHANGED <<now, notPend>>

-----------------------------------------------------------------------------
(* TimestampPlayerMapper.  playerMap is a Map keyed by the timestamp; an   *)
(* entry also carries `at`, the clock at the registerLogin that stored it. *)

TIMESTAMP_TOLERANCE_MS == 30000

MAX_AGE_MS == 5 * 60000

SWEEP_MS == 60000

\* what findPlayerByTimestamp returns for no match
NoPlayer == "null"

NoCall == [n |-> 0, op |-> "none", ts |-> 0, user |-> NoPlayer, ret |-> NoPlayer, removed |-> <<>>]

\* the entries a call deleted from the Map (keys are unique)
RemovedBy(before, after) ==
    LET Gone(value) == \A i \in 1..Len(after) : after[i] # value
    IN  SelectSeq(before, Gone)

\* the n-th call on the mapper: its arguments, its return value, what it
\* deleted or overwrote
MapCall(op, ts, user, ret) ==
    [n |-> mapRet.n + 1, op |-> op, ts |-> ts, user |-> user, ret |-> ret,
     removed |-> RemovedBy(playerMap, playerMap')]

\* the position of a timestamp key in the Map (empty: absent)
TsIndex(map, timestamp) == {i \in 1..Len(map) : map[i].timestamp = timestamp}

\* a set that always adds an entry
PlayerSet_append(map, timestamp, username) ==
    Append(map, [username |-> username, timestamp |-> timestamp, at |-> now])

\* this.playerMap.set(timestamp, {username, timestamp})
PlayerSet(map, timestamp, username) ==
    LET entry == [username |-> username, timestamp |-> timestamp, at |-> now]
    IN  IF TsIndex(map, timestamp) # {}
        THEN [map EXCEPT ![CHOOSE i \in TsIndex(map, timestamp) : TRUE] = entry]
        ELSE Append(map, entry)

\* this.playerMap.delete(key) of the entry at position i
PlayerDeleteAt(map, i) == SubSeq(map, 1, i - 1) \o SubSeq(map, i + 1, Len(map))

registerLogin(timestamp, username) ==
    /\ playerMap' = PlayerSet(playerMap, timestamp, username)
    /\ mapRet' = MapCall("login", timestamp, username, NoPlayer)

\* the test of registerLogout with the bound included
LogoutHit_closed(value, timestamp, username) ==
    value.username = username /\ Abs(value.timestamp - timestamp) <= TIMESTAMP_TOLERANCE_MS

\* the test of the loop of registerLogout
LogoutHit(value, timestamp, username) ==
    value.username = username /\ Abs(value.timestamp - timestamp) < TIMESTAMP_TOLERANCE_MS

\* the loop of registerLogout: delete at the first hit and return
RECURSIVE LogoutFrom(_, _, _, _)
LogoutFrom(map, i, timestamp, username) ==
    IF i > Len(map) THEN map
    ELSE IF LogoutHit(map[i], timestamp, username) THEN PlayerDeleteAt(map, i)
    ELSE LogoutFrom(map, i + 1, timestamp, username)

registerLogout(timestamp, username) ==
    /\ playerMap' = LogoutFrom(playerMap, 1, timestamp, username)
    /\ mapRet' = MapCall("logout", timestamp, username, NoPlayer)

NoBest == [username |-> NoPlayer, diff |-> -1]

\* the update of bestMatch that keeps the first entry in tolerance
Closer_first(bestMatch, diff) == bestMatch = NoBest

\* !bestMatch || diff < bestMatch.diff
Closer(bestMatch, diff) == bestMatch = NoBest \/ diff < bestMatch.diff

\* the loop of findPlayerByTimestamp from position i with bestMatch so far
RECURSIVE BestFrom(_, _, _, _)
BestFrom(map, i, bestMatch, connectionTimestamp) ==
    IF i > Len(map) THEN bestMatch
    ELSE LET diff == Abs(connectionTimestamp - map[i].timestamp)
         IN  BestFrom(map, i + 1,
                      IF diff < TIMESTAMP_TOLERANCE_MS /\ Closer(bestMatch, diff)
                      THEN [username |-> map[i].username, diff |-> diff]
                      ELSE bestMatch,
                      connectionTimestamp)

findPlayerByTimestamp(connectionTimestamp) ==
    /\ UNCHANGED playerMap
    /\ mapRet' = MapCall("find", connectionTimestamp, NoPlayer,
                         BestFrom(playerMap, 1, NoBest, connectionTimestamp).username)

\* the test of cleanup with the bound included
Expired_closed(value) == now - value.timestamp >= MAX_AGE_MS

\* now - value.timestamp > MAX_AGE_MS
Expired(value) == now - value.timestamp > MAX_AGE_MS

cleanup ==
    LET Keep(value) == ~Expired(value)
    IN  playerMap' = SelectSeq(playerMap, Keep)

\* setInterval(() => playerMapper.cleanup(), 60_000): the interval fires
SweepTimerFire ==
    \E t \in sweepTimers :
        /\ now >= t
        /\ cleanup
        /\ sweepTimers' = {t + SWEEP_MS}
        /\ mapRet' = [MapCall("cleanup", now, NoPlayer, NoPlayer) EXCEPT !.n = mapRet.n]

-----------------------------------------------------------------------------
(* PlayerIPMapper.  The file is absent, holds text that is not JSON, or    *)
(* holds a JSON array of records; a record on disk may be of the legacy    *)
(* shape, its ips entries carrying a `ports` array.  A lastSeen of 0 is a  *)
(* missing (falsy) lastSeen.  Thirty days of milliseconds exceed the       *)
(* integers of the model checker: where cleanup is exercised the clock and *)
(* every lastSeen count minutes.                                           *)

\* olderThanDays * 24 * 60 * 60 * 1000, in minutes
THIRTY_DAYS == 30 * 24 * 60

Absent == [kind |-> "absent"]

NotJson == [kind |-> "text"]

\* JSON.stringify(records, null, 2) written to the file
Stringify(records) == [kind |-> "json", records |-> records]

NoReg == [ip |-> "", protocol |-> "", at |-> -1]

IpUsers == {"Steve", "Alex"}

NoIpCall == [n |-> 0, op |-> "none", user |-> "", at |-> 0, saved |-> FALSE, wrote |-> FALSE,
             booted |-> FALSE, doc |-> Absent, reg |-> [u \in IpUsers |-> NoReg]]

\* the n-th call: whether it called save(), whether the write succeeded; the
\* document the constructor found and the latest register call per username
IpCall(op, user, saved, wrote) ==
    [ipHist EXCEPT !.n = @ + 1, !.op = op, !.user = user, !.at = now, !.saved = saved,
                   !.wrote = saved /\ wrote, !.booted = TRUE]

\* the position of a username key in the Map (empty: absent)
UserIndex(map, username) == {i \in 1..Len(map) : map[i].username = username}

\* this.storage.set(username, record)
StorageSet(map, record) ==
    IF UserIndex(map, record.username) # {}
    THEN [map EXCEPT ![CHOOSE i \in UserIndex(map, record.username) : TRUE] = record]
    ELSE Append(map, record)

\* this.storage.delete(username)
StorageDelete(map, username) == LET Other(r) == r.username # username IN SelectSeq(map, Other)

\* the choice of load that keeps the first entry
Later_first(e, latest) == FALSE

\* e.lastSeen && e.lastSeen > (latest.lastSeen || 0)
Later(e, latest) == e.lastSeen # 0 /\ e.lastSeen > (IF latest.lastSeen # 0 THEN latest.lastSeen ELSE 0)

\* the loop of load over r.ips: `latest` after the entries from position i
RECURSIVE LatestFrom(_, _, _)
LatestFrom(ipsArr, i, latest) ==
    IF i > Len(ipsArr) THEN latest
    ELSE LatestFrom(ipsArr, i + 1,
                    IF latest = <<>> \/ Later(ipsArr[i], latest[1]) THEN <<ipsArr[i]>> ELSE latest)

\* the record load makes of a parsed record r
Normalized(r) ==
    LET latest == LatestFrom(r.ips, 1, <<>>)
    IN  [username |-> r.username,
         ips |-> IF latest # <<>>
                 THEN <<[ip |-> latest[1].ip, protocol |-> latest[1].protocol,
                         lastSeen |-> IF latest[1].lastSeen # 0 THEN latest[1].lastSeen ELSE now]>>
                 ELSE <<>>]

\* for (const record of records) this.storage.set(record.username, record)
RECURSIVE LoadFrom(_, _, _)
LoadFrom(map, records, i) ==
    IF i > Len(records) THEN map
    ELSE LoadFrom(StorageSet(map, Normalized(records[i])), records, i + 1)

\* save(): enabled, and the write succeeds or throws (caught and logged)
Save(ok) == file' = IF enabled /\ ok THEN Stringify(storage') ELSE file

\* a constructor that runs the loader whatever `enabled` is
Construct_unguarded(ok) ==
    IF file.kind = "json"
    THEN /\ storage' = LoadFrom(storage, file.records, 1)
         /\ Save(ok)
         /\ ipHist' = [IpCall("load", "", TRUE, ok) EXCEPT !.doc = file]
    ELSE /\ UNCHANGED <<storage, file>>
         /\ ipHist' = [IpCall("load", "", FALSE, FALSE) EXCEPT !.doc = file]

\* new PlayerIPMapper(filePath, enabled): load() when enabled
Construct(ok) ==
    IF enabled /\ file.kind = "json"
    THEN /\ storage' = LoadFrom(storage, file.records, 1)
         /\ Save(ok)
         /\ ipHist' = [IpCall("load", "", TRUE, ok) EXCEPT !.doc = file]
    ELSE /\ UNCHANGED <<storage, file>>
         /\ ipHist' = [IpCall("load", "", FALSE, FALSE) EXCEPT !.doc = file]

\* registerPlayerIP leaving an existing entry's address as it was
Entry_keep(existing, ip, protocol) ==
    [ip |-> existing.ip, protocol |-> existing.protocol, lastSeen |-> now]

\* the single entry registerPlayerIP leaves: existing, overwritten if changed
Entry(existing, ip, protocol) ==
    IF existing.ip # ip \/ existing.protocol # protocol
    THEN [existing EXCEPT !.ip = ip, !.protocol = protocol, !.lastSeen = now]
    ELSE [existing EXCEPT !.lastSeen = now]

\* the storage registerPlayerIP leaves (before save)
Registered(map, username, ip, port, protocol) ==
    LET found == UserIndex(map, username) # {}
        record == IF found THEN map[CHOOSE i \in UserIndex(map, username) : TRUE]
                  ELSE [username |-> username, ips |-> <<>>]
        ips == IF record.ips = <<>>
               THEN <<[ip |-> ip, protocol |-> protocol, lastSeen |-> now]>>
               ELSE <<Entry(record.ips[1], ip, protocol)>>
    IN  StorageSet(map, [record EXCEPT !.ips = ips])

registerPlayerIP(username, ip, port, protocol, ok) ==
    IF ~enabled
    THEN UNCHANGED <<storage, file, enabled>> /\ ipHist' = IpCall("register", username, FALSE, FALSE)
    ELSE     /\ storage' = Registered(storage, username, ip, port, protocol)
             /\ Save(ok)
             /\ ipHist' = [IpCall("register", username, TRUE, ok) EXCEPT
                               !.reg[username] = [ip |-> ip, protocol |-> protocol, at |-> now]]

\* getPlayerIPs(username): the record, or none (undefined)
getPlayerIPs(username) ==
    IF UserIndex(storage, username) # {}
    THEN <<storage[CHOOSE i \in UserIndex(storage, username) : TRUE]>>
    ELSE <<>>

removePlayer(username, ok) ==
    IF ~enabled
    THEN UNCHANGED <<storage, file, enabled>> /\ ipHist' = IpCall("remove", username, FALSE, FALSE)
    ELSE /\ storage' = StorageDelete(storage, username)
         /\ Save(ok)
         /\ ipHist' = IpCall("remove", username, TRUE, ok)

\* cleanup that saves only when it removed more than one player
Cleaned_many(cleaned) == cleaned > 1

\* if (cleaned > 0)
Cleaned(cleaned) == cleaned > 0

\* cleanup(olderThanDays = 30)
ipCleanup(ok) ==
    IF ~enabled
    THEN UNCHANGED <<storage, file, enabled>> /\ ipHist' = IpCall("cleanup", "", FALSE, FALSE)
    ELSE LET cutoff == now - THIRTY_DAYS
             Fresh(e) == e.lastSeen > cutoff
             Filtered(r) == [r EXCEPT !.ips = SelectSeq(r.ips, Fresh)]
             NonEmpty(r) == Filtered(r).ips # <<>>
             kept == SelectSeq(storage, NonEmpty)
             cleaned == Len(storage) - Len(kept)
         IN  /\ storage' = [i \in 1..Len(kept) |-> Filtered(kept[i])]
             /\ IF Cleaned(cleaned)
                THEN Save(ok) /\ ipHist' = IpCall("cleanup", "", TRUE, ok)
                ELSE file' = file /\ ipHist' = IpCall("cleanup", "", FALSE, FALSE)

-----------------------------------------------------------------------------
(* Management API: the handlers of POST /api/login and POST /api/logout    *)
(* for a body that passes validation.  An embed is recorded with the       *)
(* webhook it is sent to.                                                  *)

NoRequest == [n |-> 0, route |-> "none", username |-> "", timestamp |-> 0, status |-> 0,
              matched |-> <<>>, sent |-> <<>>]

Request(route, username, timestamp, status, matched, sent) ==
    [n |-> apiHist.n + 1, route |-> route, username |-> username, timestamp |-> timestamp,
     status |-> status, matched |-> matched, sent |-> sent]

\* const groupKey = `${pending.ip}:${pending.protocol}`
ApiGroupKey(ip, protocol) == <<ip, protocol>>

GroupIndex(grouped, key) == {g \in 1..Len(grouped) : grouped[g].key = key}

\* the loop over matched: grouped.set(..) once per key, ports.push(pending.port)
RECURSIVE GroupMatched(_, _, _)
GroupMatched(grouped, matched, i) ==
    IF i > Len(matched) THEN grouped
    ELSE LET p == matched[i]
             key == ApiGroupKey(p.ip, p.protocol)
             known == IF GroupIndex(grouped, key) # {} THEN grouped
                      ELSE Append(grouped, [key |-> key, ip |-> p.ip, ports |-> <<>>,
                                            protocol |-> p.protocol])
             g == CHOOSE g \in GroupIndex(known, key) : TRUE
         IN  GroupMatched([known EXCEPT ![g].ports = Append(@, p.port)], matched, i + 1)

\* the loop over matched: playerIPMapper.registerPlayerIP for each
RECURSIVE RegisterMatched(_, _, _, _)
RegisterMatched(map, username, matched, i) ==
    IF i > Len(matched) THEN map
    ELSE RegisterMatched(Registered(map, username, matched[i].ip, matched[i].port,
                                    matched[i].protocol),
                         username, matched, i + 1)

\* for (const group of ..) for (const webhook of webhooks): one embed each
EmbedsFor(kind, username, groups, hooks) ==
    [k \in 1..(Len(groups) * Len(hooks)) |->
        LET group == groups[((k - 1) \div Len(hooks)) + 1]
            webhook == hooks[((k - 1) % Len(hooks)) + 1]
        IN  [webhook |-> webhook, kind |-> kind, username |-> username,
             ip |-> group.ip, ports |-> group.ports, protocol |-> group.protocol]]

\* an embed without address (login notice, logout without IP)
NoGroup == [ip |-> "", ports |-> <<>>, protocol |-> ""]

\* POST /api/login with {timestamp, username}; ok: whether file writes succeed
ApiLogin(timestamp, username, ok) ==
    LET matched == MatchedOf(pending, timestamp)
        grouped == GroupMatched(<<>>, matched, 1)
        sent == IF matched # <<>>
                THEN EmbedsFor("join", username, grouped, webhooks)
                ELSE EmbedsFor("login", username, <<NoGroup>>, webhooks)
    IN  /\ registerLogin(timestamp, username)
        /\ IF useRestApi
           THEN /\ processPendingForPlayer(username, timestamp)
                /\ IF enabled /\ matched # <<>>
                   THEN /\ storage' = RegisterMatched(storage, username, matched, 1)
                        /\ Save(ok)
                        /\ ipHist' = [IpCall("register", username, TRUE, ok) EXCEPT
                                         !.reg[username] =
                                             [ip |-> matched[Len(matched)].ip,
                                              protocol |-> matched[Len(matched)].protocol,
                                              at |-> now]]
                   ELSE UNCHANGED <<storage, file, ipHist>>
                /\ apiHist' = Request("login", username, timestamp, 200, matched, sent)
           ELSE /\ UNCHANGED <<pendVars, storage, file, ipHist>>
                /\ apiHist' = Request("login", username, timestamp, 200, <<>>, <<>>)

\* [...ipInfo.ports] raises a TypeError when the entry has no ports array
SpreadThrows(ips) == \E n \in 1..Len(ips) : "ports" \notin DOMAIN ips[n]

\* the loop over ipRecord.ips: grouped.set(..) once per key
RECURSIVE GroupStored(_, _, _)
GroupStored(grouped, ips, i) ==
    IF i > Len(ips) THEN grouped
    ELSE LET key == ApiGroupKey(ips[i].ip, ips[i].protocol)
         IN  GroupStored(IF GroupIndex(grouped, key) # {} THEN grouped
                         ELSE Append(grouped, [key |-> key, ip |-> ips[i].ip,
                                               ports |-> ips[i].ports,
                                               protocol |-> ips[i].protocol]),
                         ips, i + 1)

\* a POST whose body is not JSON, or fails the validation of timestamp and
\* username: answered 400 before any service is called
ApiRejected ==
    /\ apiHist' = Request("rejected", "", 0, 400, <<>>, <<>>)
    /\ UNCHANGED <<playerMap, mapRet, pendVars, storage, file, ipHist>>

\* POST /api/logout with {timestamp, username}
ApiLogout(timestamp, username) ==
    LET ipRecord == getPlayerIPs(username)
        known == ipRecord # <<>> /\ ipRecord[1].ips # <<>>
    IN  /\ registerLogout(timestamp, username)
        /\ apiHist' =
              IF useRestApi
              THEN IF known
                   THEN IF SpreadThrows(ipRecord[1].ips)
                        THEN Request("logout", username, timestamp, 400, <<>>, <<>>)
                        ELSE Request("logout", username, timestamp, 200, <<>>,
                                     EmbedsFor("leave", username,
                                               GroupStored(<<>>, ipRecord[1].ips, 1), webhooks))
                   ELSE Request("logout", username, timestamp, 200, <<>>,
                                EmbedsFor("leave", username, <<NoGroup>>, webhooks))
              ELSE Request("logout", username, timestamp, 200, <<>>, <<>>)

-----------------------------------------------------------------------------
(* Addresses.  An address text is kept with what the code asks of it:      *)
(* net.isIP, whether it holds a colon, and the value parseInt(.., 16)      *)
(* gives for its first ':'-separated group (expandIPv6Parts).              *)

\* a numeric IPv4 target: parseInt("10.0.0.5", 16) = 0x10
HostNumeric == [text |-> "10.0.0.5", isIP |-> 4, colon |-> FALSE, group1 |-> 16]

\* a host name that starts with five or more hex digits:
\* parseInt("decaf1.local", 16) = 0xdecaf1
HostHexName == [text |-> "decaf1.local", isIP |-> 0, colon |-> FALSE, group1 |-> 14600945]

ClientV4 == [text |-> "198.51.100.7", isIP |-> 4, colon |-> FALSE, group1 |-> 408]

ClientV6 == [text |-> "2001:db8::1", isIP |-> 6, colon |-> TRUE, group1 |-> 8193]

UpstreamV4 == [text |-> "203.0.113.9", isIP |-> 4, colon |-> FALSE, group1 |-> 515]

\* addressBuffer.writeUInt16BE(value, ..) raises ERR_OUT_OF_RANGE above 0xFFFF
UInt16Max == 65535

\* generateProxyProtocolV2Header raises: only the INET6 layout writes the
\* parsed groups with writeUInt16BE (the INET layout stores bytes by index)
EncodeThrows(sourceIP, destIP) ==
    /\ (sourceIP.isIP = 6 \/ sourceIP.colon)
    /\ (sourceIP.group1 > UInt16Max \/ destIP.group1 > UInt16Max)

\* the header generateProxyProtocolV2Header returns (its decoded content)
PPv2(sourceIP, sourcePort, destIP, destPort, isUDP) ==
    [src |-> sourceIP.text, srcPort |-> sourcePort, dst |-> destIP.text, dstPort |-> destPort,
     transport |-> IF isUDP THEN "DGRAM" ELSE "STREAM"]

NoHeader == [src |-> "", srcPort |-> 0, dst |-> "", dstPort |-> 0, transport |-> "none"]

\* rule.webhook && rule.webhook.trim() !== ''
HasWebhook == rule.webhook # <<>>

TargetUdpPort == 9001

\* `${rule.target.host}:${rule.target.udp}`
TargetKeyUdp == <<rule.host.text, ":", "udp">>

\* dns.promises.lookup(rule.target.host) resolves to
ResolvedAddress == HostNumeric

-----------------------------------------------------------------------------
(* PROXY protocol v2 codec (proxyProtocolBuilder.ts, proxyProtocolParser.ts). *)
(* A JS string is the sequence of its characters, a Buffer the sequence of *)
(* its bytes; a JS number that may be NaN is <<v>>, or <<>> for NaN.       *)

PROXY_V2_SIGNATURE == <<13, 10, 13, 10, 0, 13, 10, 81, 85, 73, 84, 10>>

HexChars == <<"0", "1", "2", "3", "4", "5", "6", "7", "8", "9", "a", "b", "c", "d", "e", "f">>

\* the digits by character (the letters of the texts modelled are lower case)
HexDigit == [ch \in {HexChars[i] : i \in 1..16} |-> (CHOOSE i \in 1..16 : HexChars[i] = ch) - 1]

\* the value of a hexadecimal digit, -1 for any other character
HexVal(ch) == IF ch \in DOMAIN HexDigit THEN HexDigit[ch] ELSE -1

\* whether ch is a digit of the radix
IsDigit(ch, radix) == ch \in DOMAIN HexDigit /\ HexDigit[ch] < radix

NaN == <<>>

\* String.prototype.split(sep): `cur` is the piece being read
RECURSIVE StrSplitFrom(_, _, _, _)
StrSplitFrom(s, sep, cur, acc) ==
    IF s = <<>> THEN Append(acc, cur)
    ELSE IF Len(s) >= Len(sep) /\ SubSeq(s, 1, Len(sep)) = sep
         THEN StrSplitFrom(SubSeq(s, Len(sep) + 1, Len(s)), sep, <<>>, Append(acc, cur))
         ELSE StrSplitFrom(Tail(s), sep, Append(cur, Head(s)), acc)

StrSplit(s, sep) == StrSplitFrom(s, sep, <<>>, <<>>)

\* String.prototype.includes(sub)
Includes(s, sub) == \E i \in 1..Len(s) : i + Len(sub) - 1 <= Len(s) /\ SubSeq(s, i, i + Len(sub) - 1) = sub

\* String.prototype.startsWith(prefix)
StartsWith(s, prefix) == Len(s) >= Len(prefix) /\ SubSeq(s, 1, Len(prefix)) = prefix

\* Array.prototype.join(sep) over strings
RECURSIVE StrJoin(_, _)
StrJoin(parts, sep) ==
    IF parts = <<>> THEN <<>>
    ELSE IF Len(parts) = 1 THEN parts[1]
    ELSE parts[1] \o sep \o StrJoin(Tail(parts), sep)

\* the value of the digits of s up to the first character that is no digit
\* of the radix
RECURSIVE DigitsValue(_, _, _)
DigitsValue(s, radix, acc) ==
    IF s = <<>> \/ ~IsDigit(Head(s), radix) THEN acc
    ELSE DigitsValue(Tail(s), radix, acc * radix + HexDigit[Head(s)])

\* x without its sign
Unsigned(x) == IF x # <<>> /\ x[1] \in {"-", "+"} THEN Tail(x) ELSE x

\* x without a leading 0x
Unprefixed(x) ==
    IF Len(x) >= 2 /\ x[1] = "0" /\ x[2] = "x" THEN SubSeq(x, 3, Len(x)) ELSE x

\* the number a run of hexadecimal digits stands for; NaN when there is none
HexNumber(sign, digits) ==
    IF digits = <<>> \/ ~IsDigit(digits[1], 16) THEN NaN
    ELSE <<sign * DigitsValue(digits, 16, 0)>>

\* parseInt(x, 16): an optional sign, an optional 0x, then the longest run
\* of hexadecimal digits
ParseInt16(x) ==
    HexNumber(IF x # <<>> /\ x[1] = "-" THEN -1 ELSE 1, Unprefixed(Unsigned(x)))

\* Number(x) of a piece of a dotted text: 0 for the empty string, the value
\* of a run of decimal digits, NaN for a piece holding any other character
ToNumber(x) ==
    IF \A i \in 1..Len(x) : IsDigit(x[i], 10) THEN <<DigitsValue(x, 10, 0)>> ELSE NaN

\* Number.prototype.toString(radix) of n >= 0
RECURSIVE NumToString(_, _)
NumToString(n, radix) ==
    IF n < radix THEN <<HexChars[n + 1]>>
    ELSE NumToString(n \div radix, radix) \o <<HexChars[(n % radix) + 1]>>

\* a piece of a dotted quad: 0..255 in decimal without a leading zero
IsOctet(p) ==
    /\ Len(p) \in 1..3
    /\ \A i \in 1..Len(p) : IsDigit(p[i], 10)
    /\ (Len(p) > 1 => p[1] # "0")
    /\ DigitsValue(p, 10, 0) <= 255

IsQuad(parts) == Len(parts) = 4 /\ \A i \in 1..4 : IsOctet(parts[i])

\* net.isIP(s) === 4
isIPv4(s) == IsQuad(StrSplit(s, <<".">>))

\* parts[parts.length - 1]
LastOf(parts) == parts[Len(parts)]

\* if (net.isIP(last) === 4) return last; return ip
MappedOr(last, ip) == IF isIPv4(last) THEN last ELSE ip

\* normalizeMappedIPv4: handle IPv4-mapped IPv6 (::ffff:1.2.3.4)
normalizeMappedIPv4(ip) ==
    IF StartsWith(ip, <<":", ":", "f", "f", "f", "f", ":">>)
    THEN MappedOr(LastOf(StrSplit(ip, <<":">>)), ip)
    ELSE ip

\* x => parseInt(x || '0', 16) over the pieces
HexParts(pieces) ==
    [i \in 1..Len(pieces) |-> ParseInt16(IF pieces[i] = <<>> THEN <<"0">> ELSE pieces[i])]

\* p || 0 for a number, and for an index past the end of the array
OrZero(parts, i) == IF i > Len(parts) \/ parts[i] = NaN THEN 0 ELSE parts[i][1]

\* left ? left.split(':').map(..) : []
SideParts(side) == IF side # <<>> THEN HexParts(StrSplit(side, <<":">>)) ELSE <<>>

\* for (let i = 0; i < missing; i++) parts.push(0)
Zeros(missing) == [i \in 1..missing |-> <<0>>]

\* parts.slice(0, 8).map(p => p || 0)
First8(parts) ==
    [i \in 1..(IF Len(parts) < 8 THEN Len(parts) ELSE 8) |-> <<OrZero(parts, i)>>]

\* the groups left and right of "::" with the missing ones between them
Padded(leftParts, rightParts) ==
    First8(leftParts \o Zeros(8 - (Len(leftParts) + Len(rightParts))) \o rightParts)

\* const [left, right] = ip.split('::')
Expanded(halves) == Padded(SideParts(halves[1]), SideParts(halves[2]))

\* expandIPv6Parts(ip): the numbers the encoder is about to write
expandIPv6Parts(ip) ==
    IF ~Includes(ip, <<":", ":">>)
    THEN HexParts(StrSplit(ip, <<":">>))
    ELSE Expanded(StrSplit(ip, <<":", ":">>))

\* writeUInt16BE(value, ..) accepts 0..0xFFFF and raises ERR_OUT_OF_RANGE otherwise
InRange16(value) == 0 <= value /\ value <= UInt16Max

\* the two bytes writeUInt16BE stores
UInt16BE(value) == <<(value \div 256) % 256, value % 256>>

\* sourceParts[i] || 0 for i = 0..7
Eight(parts) == [i \in 1..8 |-> OrZero(parts, i)]

\* the eight groups of an address in the INET6 layout
Groups6(ip) == Eight(expandIPv6Parts(ip))

\* addressBuffer[i] = srcParts[i] || 0 for i = 0..3 (an element of a Buffer
\* keeps the low 8 bits)
Four(parts) == [i \in 1..4 |-> OrZero(parts, i) % 256]

\* ip.split('.').map(Number)
Numbers(pieces) == [i \in 1..Len(pieces) |-> ToNumber(pieces[i])]

\* the four bytes of an address in the INET layout
Bytes4(ip) == Four(Numbers(StrSplit(ip, <<".">>)))

RECURSIVE Flatten(_)
Flatten(seqs) == IF seqs = <<>> THEN <<>> ELSE Head(seqs) \o Flatten(Tail(seqs))

Threw == [threw |-> TRUE, bytes |-> <<>>]

\* header: signature, version and command 0x21, family and protocol, the
\* length of the address block, the address block
Packet(familyAndProtocol, addressBuffer) ==
    [threw |-> FALSE,
     bytes |-> PROXY_V2_SIGNATURE \o <<33, familyAndProtocol>>
                   \o UInt16BE(Len(addressBuffer)) \o addressBuffer]

\* the INET6 branch: sixteen groups and two ports written with writeUInt16BE
Inet6(values, sourcePort, destPort, protocolBits) ==
    IF \/ \E i \in 1..16 : ~InRange16(values[i])
       \/ ~InRange16(sourcePort) \/ ~InRange16(destPort)
    THEN Threw
    ELSE Packet(32 + protocolBits,
                Flatten([i \in 1..16 |-> UInt16BE(values[i])])
                    \o UInt16BE(sourcePort) \o UInt16BE(destPort))

\* the INET branch: eight bytes stored by index, two ports written with
\* writeUInt16BE
Inet(octets, sourcePort, destPort, protocolBits) ==
    IF ~InRange16(sourcePort) \/ ~InRange16(destPort)
    THEN Threw
    ELSE Packet(16 + protocolBits, octets \o UInt16BE(sourcePort) \o UInt16BE(destPort))

\* generateProxyProtocolV2Header after normalizeMappedIPv4; the family:
\* net.isIP(sourceIP) === 6 || sourceIP.includes(':'), and an IPv6 literal
\* holds a colon
Encoded(sourceIP, sourcePort, destIP, destPort, isUDP) ==
    IF Includes(sourceIP, <<":">>)
    THEN Inet6(Groups6(sourceIP) \o Groups6(destIP), sourcePort, destPort, IF isUDP THEN 2 ELSE 1)
    ELSE Inet(Bytes4(sourceIP) \o Bytes4(destIP), sourcePort, destPort, IF isUDP THEN 2 ELSE 1)

\* generateProxyProtocolV2Header: the buffer returned, or the error raised
generateProxyProtocolV2Header(sourceIP, sourcePort, destIP, destPort, isUDP) ==
    Encoded(normalizeMappedIPv4(sourceIP), sourcePort, normalizeMappedIPv4(destIP), destPort, isUDP)

\* a signature test that looks at the first byte only
isProxyV2_first(data) == Len(data) >= 1 /\ data[1] = PROXY_V2_SIGNATURE[1]

\* isProxyV2(data)
isProxyV2(data) ==
    /\ Len(data) >= Len(PROXY_V2_SIGNATURE)
    /\ SubSeq(data, 1, Len(PROXY_V2_SIGNATURE)) = PROXY_V2_SIGNATURE

\* data.readUInt16BE(offset), offset counted from 0
ReadUInt16BE(data, offset) == data[offset + 1] * 256 + data[offset + 2]

\* formatIPv6(buf): the eight groups in hexadecimal, joined by ':'
formatIPv6(buf) ==
    StrJoin([i \in 1..8 |-> NumToString(ReadUInt16BE(buf, 2 * (i - 1)), 16)], <<":">>)

\* `${data[o]}.${data[o + 1]}.${data[o + 2]}.${data[o + 3]}`
formatIPv4(data, offset) ==
    StrJoin([i \in 1..4 |-> NumToString(data[offset + i], 10)], <<".">>)

FamilyOf(familyBit) ==
    CASE familyBit = 1 -> "INET" [] familyBit = 2 -> "INET6" [] familyBit = 3 -> "UNIX"
      [] OTHER -> "UNSPEC"

ProtocolOf(protocolBit) ==
    CASE protocolBit = 1 -> "STREAM" [] protocolBit = 2 -> "DGRAM" [] OTHER -> "UNSPEC"

\* the addresses and ports parseProxyV2 reads, by the layout it recognizes:
\* "v4", "v6", or "none"
AddressesOf(data, layout) ==
    CASE layout = "v4" ->
             [src |-> formatIPv4(data, 16), dst |-> formatIPv4(data, 20),
              srcPort |-> ReadUInt16BE(data, 24), dstPort |-> ReadUInt16BE(data, 26)]
      [] layout = "v6" ->
             [src |-> formatIPv6(SubSeq(data, 17, 32)), dst |-> formatIPv6(SubSeq(data, 33, 48)),
              srcPort |-> ReadUInt16BE(data, 48), dstPort |-> ReadUInt16BE(data, 50)]
      [] OTHER -> [src |-> <<>>, dst |-> <<>>, srcPort |-> 0, dstPort |-> 0]

\* family and protocol recognized, and an address block long enough
LayoutOf(family, protocol, addressLength) ==
    IF family = "INET" /\ protocol \in {"STREAM", "DGRAM"}
    THEN IF addressLength >= 12 THEN "v4" ELSE "none"
    ELSE IF family = "INET6" /\ protocol \in {"STREAM", "DGRAM"}
    THEN IF addressLength >= 36 THEN "v6" ELSE "none"
    ELSE "none"

\* the object parseProxyV2 returns
Parsed(versionAndCommand, family, protocol, addressLength, read) ==
    [version |-> versionAndCommand \div 16,
     command |-> IF versionAndCommand % 16 = 1 THEN "PROXY" ELSE "LOCAL",
     family |-> family,
     protocol |-> protocol,
     sourceAddress |-> read.src,
     destAddress |-> read.dst,
     sourcePort |-> read.srcPort,
     destPort |-> read.dstPort,
     headerLength |-> 16 + addressLength]

\* parseProxyV2 past its two first tests
ParsedFrom(data, family, protocol, addressLength) ==
    IF Len(data) < 16 + addressLength THEN <<>>
    ELSE <<Parsed(data[13], family, protocol, addressLength,
                  AddressesOf(data, LayoutOf(family, protocol, addressLength)))>>

\* parseProxyV2(data): <<>> is null
parseProxyV2(data) ==
    IF ~isProxyV2(data) THEN <<>>
    ELSE IF Len(data) < 16 THEN <<>>
    ELSE ParsedFrom(data, FamilyOf(data[14] \div 16), ProtocolOf(data[14] % 16),
                    ReadUInt16BE(data, 14))

MAX_ITER == 32

\* an offset that advances by the fixed part of a header only
Advance_fixed(offset, hdr) == offset + 16

\* offset += hdr.headerLength
Advance(offset, hdr) == offset + hdr.headerLength

RECURSIVE ChainFrom(_, _, _, _)

\* one turn of the loop of parseProxyV2Chain, over the chunk at `offset` and
\* what parseProxyV2 made of it
ChainStep(data, offset, iteration, headers, chunk, hdr) ==
    IF ~isProxyV2(chunk) \/ hdr = <<>>
    THEN [headers |-> headers, offset |-> offset]
    ELSE ChainFrom(data, Advance(offset, hdr[1]), iteration + 1, Append(headers, hdr[1]))

\* the loop of parseProxyV2Chain from `offset`, `iteration` headers read
ChainFrom(data, offset, iteration, headers) ==
    IF offset < Len(data) /\ iteration < MAX_ITER
    THEN ChainStep(data, offset, iteration, headers,
                   SubSeq(data, offset + 1, Len(data)),
                   parseProxyV2(SubSeq(data, offset + 1, Len(data))))
    ELSE [headers |-> headers, offset |-> offset]

\* data.subarray(offset)
PayloadFrom(data, end) ==
    [headers |-> end.headers, payload |-> SubSeq(data, end.offset + 1, Len(data))]

\* parseProxyV2Chain(data)
parseProxyV2Chain(data) == PayloadFrom(data, ChainFrom(data, 0, 0, <<>>))

\* the answer getOriginalClientFromHeaders draws from the last header
OriginalFrom(last) ==
    IF last.sourceAddress # <<>>
    THEN <<[ip |-> last.sourceAddress, port |-> last.sourcePort]>>
    ELSE <<>>

\* getOriginalClientFromHeaders(headers): <<>> is null
getOriginalClientFromHeaders(headers) ==
    IF headers = <<>> THEN <<>> ELSE OriginalFrom(LastOf(headers))

-----------------------------------------------------------------------------
(* UDP forwarder.                                                          *)

CLEANUP_MS == 60000

sessionKey(address, port) == <<address.text, port>>

\* the events of the history with operation `op`
UdpEvents(op) == {e \in udpHist : e.op = op}

\* a datagram is the PPv2 chain at its start (the headers parseProxyV2Chain
\* returns for it) and the bytes after the chain
NoData == [chain |-> <<>>, body |-> 0]

\* one event: `n` numbers the datagram (recv, send and the callback's latches)
UdpEvent(op, sid, sock, n) ==
    [op |-> op, sid |-> sid, sock |-> sock, n |-> n, at |-> now,
     timer |-> 0, cleared |-> 0, created |-> FALSE, header |-> FALSE, hdr |-> NoHeader,
     ip |-> "", port |-> 0, data |-> NoData]

\* clearTimeout left out
ClearTimeout_noop(timers, id) == timers

\* clearTimeout(session.timer)
ClearTimeout(timers, id) == {t \in timers : t.id # id}

\* the first header of the chain adopted
OriginalOf_first(rinfo, msg) ==
    IF Len(msg.chain) > 0
    THEN LET first == msg.chain[1]
         IN  [ip |-> IF first.sourceAddress.text # "" THEN first.sourceAddress ELSE rinfo.address,
              port |-> IF first.sourcePort # 0 THEN first.sourcePort ELSE rinfo.port]
    ELSE [ip |-> rinfo.address, port |-> rinfo.port]

\* chain.headers[chain.headers.length - 1] adopted as the original client
OriginalOf(rinfo, msg) ==
    IF Len(msg.chain) > 0
    THEN LET last == msg.chain[Len(msg.chain)]
         IN  [ip |-> IF last.sourceAddress.text # "" THEN last.sourceAddress ELSE rinfo.address,
              port |-> IF last.sourcePort # 0 THEN last.sourcePort ELSE rinfo.port]
    ELSE [ip |-> rinfo.address, port |-> rinfo.port]

\* actualPayload: chain.payload when the datagram starts with a chain
ActualPayload(msg) == IF Len(msg.chain) > 0 THEN [msg EXCEPT !.chain = <<>>] ELSE msg

\* destHostResolved: undefined
Unresolved == [text |-> "", isIP |-> 0, colon |-> FALSE, group1 |-> 0]

\* session.destHostResolved ?? rule.target.host
DestOf(session) == IF session.destHostResolved # Unresolved THEN session.destHostResolved ELSE rule.host

\* whether this datagram gets the header: rule.haproxy && !session.headerSent,
\* and generateProxyProtocolV2Header did not raise
AttachHeader(session, original) ==
    /\ rule.haproxy
    /\ ~session.headerSent
    /\ ~EncodeThrows(original.ip, DestOf(session))

\* a session created with a player name
NewSession_named(rinfo, sock, n) ==
    [clientAddress |-> rinfo.address, clientPort |-> rinfo.port,
     destSocket |-> sock, playerName |-> "Steve", headerSent |-> FALSE,
     notified |-> FALSE, logged |-> FALSE,
     destHostResolved |-> IF rule.host.isIP # 0 THEN rule.host ELSE Unresolved,
     timer |-> n]

\* the session object of a new client (playerName: undefined is ""); the
\* async resolver runs up to its first await: a numeric host is stored at once
NewSession(rinfo, sock, n) ==
    [clientAddress |-> rinfo.address, clientPort |-> rinfo.port,
     destSocket |-> sock, playerName |-> "", headerSent |-> FALSE,
     notified |-> FALSE, logged |-> FALSE,
     destHostResolved |-> IF rule.host.isIP # 0 THEN rule.host ELSE Unresolved,
     timer |-> n]

\* server.on('message'): datagram number n, `msg` from rinfo
UdpMessage(rinfo, msg, n) ==
    LET key == sessionKey(rinfo.address, rinfo.port)
        isNew == key \notin DOMAIN sessions
        sid == IF isNew THEN Len(sessionObjs) + 1 ELSE sessions[key]
        sock == IF isNew THEN Len(sockets) + 1 ELSE sessionObjs[sid].destSocket
        created == NewSession(rinfo, sock, n)
        session == IF isNew THEN created ELSE [sessionObjs[sid] EXCEPT !.timer = n]
        oldTimer == IF isNew THEN 0 ELSE sessionObjs[sid].timer
        original == OriginalOf(rinfo, msg)
        withHeader == AttachHeader(session, original)
        after == [session EXCEPT !.headerSent = @ \/ withHeader]
    IN  /\ sessions' = IF isNew THEN MapSet(sessions, key, sid) ELSE sessions
        /\ sockets' = IF isNew THEN Append(sockets, [state |-> "open", closes |-> 0, owner |-> sid])
                      ELSE sockets
        /\ sessionObjs' = IF isNew THEN Append(sessionObjs, after)
                          ELSE [sessionObjs EXCEPT ![sid] = after]
        /\ udpDns' = IF isNew /\ rule.host.isIP = 0 THEN udpDns \cup {sid} ELSE udpDns
        /\ udpTimers' = (IF isNew THEN udpTimers ELSE ClearTimeout(udpTimers, oldTimer))
                            \cup {[id |-> n, sid |-> sid, key |-> key, sock |-> sock,
                                   at |-> now + CLEANUP_MS]}
        /\ udpInFlight' = udpInFlight \cup
                            {[n |-> n, sid |-> sid, ip |-> original.ip, port |-> original.port]}
        /\ udpHist' = udpHist \cup
               { [UdpEvent("recv", sid, sock, n)
                      EXCEPT !.timer = n, !.cleared = oldTimer, !.created = isNew,
                             !.ip = rinfo.address.text, !.port = rinfo.port, !.data = msg],
                 [UdpEvent("send", sid, sock, n)
                      EXCEPT !.header = withHeader,
                             !.hdr = IF withHeader
                                     THEN PPv2(original.ip, original.port, DestOf(session),
                                               TargetUdpPort, TRUE)
                                     ELSE NoHeader,
                             !.ip = original.ip.text, !.port = original.port,
                             !.data = ActualPayload(msg)] }

\* a latch that is never seen as taken
Latch_open(held) == TRUE

\* what the send callback does with the latch `held` when the send succeeded
Latch(held) == ~held

\* the callback of session.destSocket.send, for the send f; ok: err is null
UdpSendCallback(f, ok) ==
    LET session == sessionObjs[f.sid]
        log == ok /\ Latch(session.logged)
        notify == ok /\ HasWebhook /\ Latch(session.notified)
        event(op) == [UdpEvent(op, f.sid, session.destSocket, f.n)
                          EXCEPT !.ip = f.ip.text, !.port = f.port]
    IN  /\ udpInFlight' = udpInFlight \ {f}
        /\ sessionObjs' = [sessionObjs EXCEPT ![f.sid].logged = @ \/ log,
                                              ![f.sid].notified = @ \/ notify]
        /\ udpHist' = udpHist
              \cup (IF ok THEN {event("acked")} ELSE {})
              \cup (IF log THEN {event("logged")} ELSE {})
              \cup (IF notify THEN {event("notify")} ELSE {})
        /\ IF notify
           THEN IF useRestApi
                THEN addPending(f.ip.text, f.port, "UDP", TargetKeyUdp) /\ UNCHANGED aggVars
                ELSE /\ addToConnectGroup(rule.webhook, TargetKeyUdp, f.ip.text, f.port, "UDP")
                     /\ UNCHANGED <<groupedDisconnects, disconnectTimers, pendVars>>
           ELSE UNCHANGED <<aggVars, pendVars>>
        /\ UNCHANGED <<sessions, sockets, udpTimers, udpDns>>

\* the await of dns.promises.lookup settles for session sid
UdpDnsSettle(sid, ok) ==
    /\ udpDns' = udpDns \ {sid}
    /\ sessionObjs' = [sessionObjs EXCEPT ![sid].destHostResolved =
                            IF ok THEN ResolvedAddress ELSE rule.host]
    /\ UNCHANGED <<sessions, sockets, udpTimers, udpInFlight, udpHist>>

\* the session deleted without closing its socket
SocketClose_leak(socks, sock) == socks

\* destSocket.close()
SocketClose(socks, sock) ==
    [socks EXCEPT ![sock] = [@ EXCEPT !.state = "closed", !.closes = @ + 1]]

\* the leave notice reserved to sessions whose connect was notified
LeaveGrouped_notified(session) == HasWebhook /\ session.playerName = "" /\ ~useRestApi /\ session.notified

\* the leave notice sent to the aggregator in REST mode as well
LeaveGrouped_rest(session) == HasWebhook /\ session.playerName = ""

\* the idle timer's leave notice goes to the aggregator: a webhook, no
\* player name, not REST mode
LeaveGrouped(session) == HasWebhook /\ session.playerName = "" /\ ~useRestApi

\* the idle timer t fires (either of the two setTimeout closures);
\* close() on a socket that is not running raises and ends the callback
UdpIdleTimeout(t) ==
    LET session == sessionObjs[t.sid]
        leaveNamed == HasWebhook /\ session.playerName # ""
        leaveGrouped == LeaveGrouped(session)
        running == sockets[t.sock].state = "open"
        event(op) == [UdpEvent(op, t.sid, t.sock, t.id)
                          EXCEPT !.timer = t.id, !.ip = session.clientAddress.text,
                                 !.port = session.clientPort]
    IN  /\ udpTimers' = udpTimers \ {t}
        /\ IF leaveGrouped
           THEN /\ addToDisconnectGroup(rule.webhook, TargetKeyUdp,
                                        session.clientAddress.text, session.clientPort, "UDP")
                /\ UNCHANGED <<groupedClients, groupTimers>>
           ELSE UNCHANGED aggVars
        /\ sockets' = IF running THEN SocketClose(sockets, t.sock) ELSE sockets
        /\ sessions' = IF running THEN MapDelete(sessions, t.key) ELSE sessions
        /\ udpHist' = udpHist
              \cup (IF leaveNamed THEN {event("leave")} ELSE {})
              \cup {event("evict")}
        /\ UNCHANGED <<sessionObjs, udpInFlight, udpDns, pendVars>>

-----------------------------------------------------------------------------
(* TCP forwarder: one connection.  The client socket is a Readable stream: *)
(* readableFlowing is null, false or true; bytes the client has sent wait  *)
(* in the stream's buffer and are only emitted as 'data' while it flows.   *)

\* `${rule.target.host}:${rule.target.tcp}`
TargetKeyTcp == <<rule.host.text, ":", "tcp">>

TargetTcpPort == 9000

NoChunk == [id |-> 0, chain |-> <<>>]

\* destSocket.write(chunk): the chunk as it came from the client, the PPv2
\* chain at its start included
Data(chunk) == [kind |-> "data", id |-> chunk.id, hdr |-> NoHeader, chain |-> chunk.chain]

Header(hdr) == [kind |-> "header", id |-> 0, hdr |-> hdr, chain |-> <<>>]

\* the chunk numbered id is id bytes long
ChunkLength(chunk) == chunk.id

\* what the 'close' handler printed: nothing, or the two totals
NoLog == [shown |-> FALSE, sent |-> 0, recv |-> 0]

\* the closure variables before a client is accepted; dbuf holds what the
\* backend sent and destSocket has not emitted, toClient what the pipe wrote
\* to the client
NoConn ==
    [pc |-> "listening", client |-> Unresolved, clientPort |-> 0,
     flowing |-> "null", rbuf |-> <<>>, sent |-> 0, early |-> 0,
     firstChunk |-> NoChunk, onceAttached |-> FALSE, firstChunkHandled |-> FALSE,
     destConnected |-> FALSE, webhookSentForConn |-> FALSE,
     proxy |-> [ip |-> Unresolved, port |-> 0],
     piped |-> FALSE, caught |-> FALSE, written |-> <<>>,
     counting |-> FALSE, clientToServerBytes |-> 0, serverToClientBytes |-> 0,
     dsent |-> 0, dbuf |-> <<>>, toClient |-> <<>>,
     closed |-> FALSE, log |-> NoLog]

\* clientSocket.pause() left out
Pause_noop(flowing) == flowing

\* clientSocket.pause()
Pause(flowing) == "false"

\* adding a 'data' listener resumes a stream that was not paused explicitly
OnData(flowing) == IF flowing = "false" THEN "false" ELSE "true"

\* net.createServer's connection handler, up to clientSocket.once('data', ..)
TcpConnection(address, port) ==
    conn' = [conn EXCEPT !.pc = "connecting", !.client = address, !.clientPort = port,
                         !.flowing = OnData(Pause(@)), !.onceAttached = TRUE]

\* the 'data' event for the oldest buffered chunk: the once-listener first,
\* then the pipe's listener
TcpData ==
    LET chunk == Head(conn.rbuf)
    IN  conn' = [conn EXCEPT
                    !.rbuf = Tail(@),
                    !.firstChunk = IF conn.onceAttached THEN chunk ELSE @,
                    !.firstChunkHandled = @ \/ (conn.onceAttached /\ conn.destConnected),
                    !.onceAttached = FALSE,
                    !.clientToServerBytes = IF conn.counting THEN @ + ChunkLength(chunk) ELSE @,
                    !.written = IF conn.piped THEN Append(@, Data(chunk)) ELSE @]

\* the 'data' event of destSocket for the oldest chunk of the backend: the
\* counting listener, then the pipe's listener
TcpBackendData ==
    LET chunk == Head(conn.dbuf)
    IN  conn' = [conn EXCEPT
                    !.dbuf = Tail(@),
                    !.serverToClientBytes = IF conn.counting THEN @ + ChunkLength(chunk) ELSE @,
                    !.toClient = Append(@, Data(chunk))]

\* clientSocket.on('close'): the totals are printed if the backend connected
TcpClientClose ==
    conn' = [conn EXCEPT
                !.closed = TRUE,
                !.log = IF conn.destConnected
                        THEN [shown |-> TRUE, sent |-> conn.clientToServerBytes,
                              recv |-> conn.serverToClientBytes]
                        ELSE NoLog]

\* clientSocket.resume(); clientSocket.pipe(destSocket)
Piped(c) == [c EXCEPT !.flowing = "true", !.piped = TRUE, !.pc = "piped"]

\* the proxyIP / proxyPort the connect callback settles on
ProxyOf(c) ==
    LET own == [ip |-> c.client, port |-> c.clientPort]
    IN  IF c.firstChunk # NoChunk /\ Len(c.firstChunk.chain) > 0
        THEN LET last == c.firstChunk.chain[Len(c.firstChunk.chain)]
             IN  IF last.sourceAddress # Unresolved
                 THEN [ip |-> last.sourceAddress,
                       port |-> IF last.sourcePort # 0 THEN last.sourcePort ELSE own.port]
                 ELSE own
        ELSE own

\* the connect callback from the header's construction on: the header is
\* written and its callback awaited, or the encoder raises into the catch
WriteHeader(c, destIP) ==
    IF EncodeThrows(c.proxy.ip, destIP)
    THEN [Piped(c) EXCEPT !.caught = TRUE]
    ELSE [c EXCEPT !.pc = "writing",
                   !.written = Append(@, Header(PPv2(c.proxy.ip, c.proxy.port, destIP,
                                                     TargetTcpPort, FALSE)))]

\* destSocket.write(firstChunk) when one was captured, resume and pipe
Forward(c) ==
    Piped([c EXCEPT !.written = IF c.firstChunk # NoChunk THEN Append(@, Data(c.firstChunk)) ELSE @])

\* the connection's notification, latched by webhookSentForConn
TcpNotify(c) ==
    IF HasWebhook /\ ~c.webhookSentForConn
    THEN IF useRestApi
         THEN addPending(c.proxy.ip.text, c.proxy.port, "TCP", TargetKeyTcp) /\ UNCHANGED aggVars
         ELSE /\ addToConnectGroup(rule.webhook, TargetKeyTcp, c.proxy.ip.text, c.proxy.port, "TCP")
              /\ UNCHANGED <<groupedDisconnects, disconnectTimers, pendVars>>
    ELSE UNCHANGED <<aggVars, pendVars>>

Notified(c) == [c EXCEPT !.webhookSentForConn = @ \/ HasWebhook]

\* the callback of net.connect, up to its first await or to its end
TcpConnected ==
    LET c == [conn EXCEPT !.destConnected = TRUE, !.early = conn.sent, !.proxy = ProxyOf(conn)]
    IN  IF rule.haproxy
        THEN /\ conn' = IF rule.host.isIP = 0
                        THEN [c EXCEPT !.pc = "resolving"]
                        ELSE WriteHeader(c, rule.host)
             /\ UNCHANGED <<aggVars, pendVars>>
        ELSE /\ conn' = Notified(Forward(c))
             /\ TcpNotify(c)

\* the await of dns.promises.lookup settles; a failure keeps the host name
TcpDnsSettle(ok) ==
    conn' = WriteHeader(conn, IF ok THEN ResolvedAddress ELSE rule.host)

\* clientSocket.on('data', ..) and destSocket.on('data', ..) that add
\* chunk.length to the counters
Counted(c) == [c EXCEPT !.counting = TRUE]

\* the callback of destSocket.write(header, ..)
TcpHeaderWritten ==
    /\ conn' = Notified(Counted(Forward(conn)))
    /\ TcpNotify(conn)

\* destSocket 'error' before the connection is up: clientSocket.end()
TcpConnectError == conn' = [conn EXCEPT !.pc = "ended"]

-----------------------------------------------------------------------------
(* The clock.                                                              *)

Deadlines ==
    ArmedDeadlines(groupTimers) \cup ArmedDeadlines(disconnectTimers)
        \cup {t.at : t \in pendingTimers}
        \cup {t.at : t \in udpTimers}
        \cup sweepTimers

\* time passes: by `step`, or up to the next deadline when that is sooner
Tick(step, horizon) ==
    /\ now < horizon
    /\ \A d \in Deadlines : d > now
    /\ now' = Min({now + step} \cup Deadlines)

-----------------------------------------------------------------------------
(* Specification of the aggregator alone: the forwarders' calls are the    *)
(* environment.                                                            *)

ClockInit == now = 0

AggregatorInit ==
    /\ groupedClients = EmptyMap
    /\ groupTimers = EmptyMap
    /\ groupedDisconnects = EmptyMap
    /\ disconnectTimers = EmptyMap
    /\ aggHist = <<>>

BufferInit ==
    /\ pending = <<>>
    /\ pendingTimers = {}
    /\ pendHist = <<>>

UdpInit ==
    /\ sessions = EmptyMap
    /\ sessionObjs = <<>>
    /\ sockets = <<>>
    /\ udpTimers = {}
    /\ udpInFlight = {}
    /\ udpDns = {}
    /\ udpHist = {}

\* no listener configured
TcpInit == conn = NoConn

ConfigNone ==
    /\ rule = [haproxy |-> FALSE, webhook |-> <<>>, host |-> HostNumeric]
    /\ useRestApi = FALSE

\* the mapper is empty and main() has not scheduled its sweep
MapperInit ==
    /\ playerMap = <<>>
    /\ sweepTimers = {}
    /\ mapRet = NoCall

\* persistence switched off, nothing on disk
PersistOff ==
    /\ storage = <<>>
    /\ file = Absent
    /\ enabled = FALSE
    /\ ipHist = NoIpCall

\* the management API is not started
ApiOff ==
    /\ webhooks = <<>>
    /\ apiHist = NoRequest

\* no encoder call under way
NoCodec ==
    [pc |-> "off", src |-> <<>>, sport |-> 0, dst |-> <<>>, dport |-> 0, udp |-> FALSE,
     out |-> [threw |-> FALSE, bytes |-> <<>>], one |-> <<>>,
     layers |-> 0, damage |-> "none", tail |-> <<>>, data |-> <<>>,
     first |-> <<>>, chain |-> [headers |-> <<>>, payload |-> <<>>]]

\* the codec is not exercised
CodecOff == codec = NoCodec

ServicesInit == MapperInit /\ PersistOff /\ ApiOff /\ CodecOff

MaxAdds == 2
MaxAggTicks == 4

AggStep == GROUP_WINDOW_MS \div 2

AggWebhooks == {<<"hookA">>}
AggTargets == {<<"10.0.0.5:9000">>}
AggProtocols == {"TCP", "UDP"}
AggIPs == {"ip1", "ip2"}
AggPorts == {1, 2}

NumAdds == Cardinality({i \in 1..Len(aggHist) : aggHist[i].op = "add"})

AggInit == ClockInit /\ AggregatorInit /\ BufferInit /\ ConfigNone /\ UdpInit /\ TcpInit /\ ServicesInit

CallAddConnect ==
    \E w \in AggWebhooks, t \in AggTargets, ip \in AggIPs, port \in AggPorts, p \in AggProtocols :
        /\ NumAdds < MaxAdds
        /\ addToConnectGroup(w, t, ip, port, p)
        /\ UNCHANGED <<now, groupedDisconnects, disconnectTimers, notAgg>>

\* (the only call site passes 'UDP')
CallAddDisconnect ==
    \E w \in AggWebhooks, t \in AggTargets, ip \in AggIPs, port \in AggPorts, p \in {"UDP"} :
        /\ NumAdds < MaxAdds
        /\ addToDisconnectGroup(w, t, ip, port, p)
        /\ UNCHANGED <<now, groupedClients, groupTimers, notAgg>>

AggTick == Tick(AggStep, MaxAggTicks * AggStep) /\ UNCHANGED <<aggVars, notAgg>>

AggNext ==
    \/ CallAddConnect
    \/ CallAddDisconnect
    \/ GroupTimerFire
    \/ DisconnectTimerFire
    \/ AggTick

vars == <<now, aggVars, pendVars, cfgVars, udpVars, tcpVars, svcVars>>

SpecAgg == AggInit /\ [][AggNext]_vars

-----------------------------------------------------------------------------
(* Properties of the aggregator, read off the history.                     *)

FlushIdx == {j \in 1..Len(aggHist) : aggHist[j].op = "flush"}

AddIdx == {i \in 1..Len(aggHist) : aggHist[i].op = "add"}

SameBucket(i, j) == aggHist[i].fam = aggHist[j].fam /\ aggHist[i].key = aggHist[j].key

Max(S) == CHOOSE x \in S : \A y \in S : x >= y

\* the flush of j's bucket key that precedes position j (0: none)
PrevFlush(j) == Max({0} \cup {p \in FlushIdx : p < j /\ SameBucket(p, j)})

\* the insertions the flush at j had in its bucket
AddsOf(j) == {i \in AddIdx : i < j /\ i > PrevFlush(j) /\ SameBucket(i, j)}

\* an insertion that opened a bucket
OpensBucket(i) == i \in AddIdx /\ ~\E i0 \in AddIdx : i0 < i /\ i0 > PrevFlush(i) /\ SameBucket(i0, i)

\* the insertions not flushed yet
OpenAdds == {i \in AddIdx : ~\E j \in FlushIdx : j > i /\ SameBucket(i, j)}

PairsOfGroups(g) == UNION {{<<g[n].ip, g[n].ports[m]>> : m \in 1..Len(g[n].ports)} : n \in 1..Len(g)}

PairsOfAdds(A) == {<<aggHist[i].ip, aggHist[i].port>> : i \in A}

StrictlyAscending(s) == \A m \in 1..Len(s) - 1 : s[m] < s[m + 1]

TimersOf(fam) == IF fam = "connect" THEN groupTimers ELSE disconnectTimers

BucketsOf(fam) == IF fam = "connect" THEN groupedClients ELSE groupedDisconnects

\* C7: the insertions made into one bucket within the 3000 ms window that the
\* first of them opened are reported by exactly one grouped embed, sent
\* GROUP_WINDOW_MS after that first insertion (later insertions do not move
\* the deadline); the embed lists every inserted IP once with that IP's
\* ports duplicate-free in ascending order.
C7_OneGroupedEmbedPerWindow ==
    /\ \A j \in FlushIdx :
        LET A == AddsOf(j)
            g == aggHist[j].groups
        IN  /\ A # {}
            /\ aggHist[j].at = aggHist[Min(A)].at + GROUP_WINDOW_MS
            /\ \A n, m \in 1..Len(g) : n # m => g[n].ip # g[m].ip
            /\ {g[n].ip : n \in 1..Len(g)} = {aggHist[i].ip : i \in A}
            /\ \A n \in 1..Len(g) :
                  /\ StrictlyAscending(g[n].ports)
                  /\ Range(g[n].ports) = {aggHist[i].port : i \in {a \in A : aggHist[a].ip = g[n].ip}}
    /\ \A i, i2 \in AddIdx :
        (/\ i < i2 /\ SameBucket(i, i2)
         /\ aggHist[i2].at < aggHist[i].at + GROUP_WINDOW_MS
         /\ OpensBucket(i))
        => ~\E j \in FlushIdx : i < j /\ j < i2 /\ SameBucket(i, j)
    /\ \A i \in OpenAdds : OpensBucket(i) => now <= aggHist[i].at + GROUP_WINDOW_MS

\* C7 witness: an embed was sent for a bucket that received several
\* insertions at different times, one IP's ports arriving in descending order
C7_Witness ==
    \E j \in FlushIdx :
        /\ aggHist[j].fam = "connect"
        /\ \E i, i2 \in AddsOf(j) :
            /\ i < i2 /\ aggHist[i].at < aggHist[i2].at
            /\ aggHist[i].ip = aggHist[i2].ip /\ aggHist[i].port > aggHist[i2].port

\* C8: every flush reports exactly the (ip, port) inserted into its bucket
\* since the bucket was opened - all of them, and none that an earlier flush
\* of the same key reported; an insertion not flushed yet sits in a bucket
\* whose timer is armed for GROUP_WINDOW_MS after the insertion that opened it.
C8_FlushReportsItsBucketOnly ==
    /\ \A j \in FlushIdx : PairsOfGroups(aggHist[j].groups) = PairsOfAdds(AddsOf(j))
    /\ \A i \in OpenAdds :
        LET f == aggHist[i].fam
            k == aggHist[i].key
            opener == Min({a \in OpenAdds : SameBucket(a, i)})
        IN  /\ k \in DOMAIN BucketsOf(f)
            /\ <<aggHist[i].ip, aggHist[i].port>> \in PairsOfGroups(GroupsOf(BucketsOf(f)[k]))
            /\ k \in DOMAIN TimersOf(f)
            /\ TimersOf(f)[k] = Timer(aggHist[opener].at + GROUP_WINDOW_MS)
    /\ \A f \in {"connect", "disconnect"} : \A k \in DOMAIN BucketsOf(f) :
        PairsOfGroups(GroupsOf(BucketsOf(f)[k]))
            = PairsOfAdds({i \in OpenAdds : aggHist[i].fam = f /\ aggHist[i].key = k})

\* C8 witness: a key was flushed, received a later insertion, and was flushed
\* again
C8_Witness ==
    \E j, j2 \in FlushIdx :
        /\ j < j2 /\ SameBucket(j, j2) /\ aggHist[j].fam = "connect"
        /\ AddsOf(j2) # {}
        /\ aggHist[j2].at >= aggHist[j].at + GROUP_WINDOW_MS

\* the keys of a Map key -> timer whose timer can still fire
ArmedKeys(timers) == {k \in DOMAIN timers : timers[k].armed}

\* C32: in each family the keys that have a bucket are the keys that have a
\* timer, every such timer is armed and not overdue, and a bucket is never
\* empty; so a flush, which deletes the bucket, deletes the timer with it,
\* and an insertion, which creates the bucket, arms the timer with it.
C32_BucketIffTimer ==
    \A f \in {"connect", "disconnect"} :
        /\ DOMAIN BucketsOf(f) = DOMAIN TimersOf(f)
        /\ ArmedKeys(TimersOf(f)) = DOMAIN TimersOf(f)
        /\ \A k \in DOMAIN BucketsOf(f) :
              /\ BucketsOf(f)[k] # <<>>
              /\ now <= TimersOf(f)[k].at

\* C32 witness: a disconnect key was flushed (its bucket and timer went
\* together) and received a later insertion: it has a bucket and an armed
\* timer again
C32_Witness ==
    \E j \in FlushIdx :
        /\ aggHist[j].fam = "disconnect"
        /\ aggHist[j].key \in DOMAIN groupedDisconnects
        /\ aggHist[j].key \in ArmedKeys(disconnectTimers)
        /\ disconnectTimers[aggHist[j].key].at > aggHist[j].at

-----------------------------------------------------------------------------
(* Specification of the group keys: the aggregator called for listeners    *)
(* whose webhook URL or target holds the separator.                        *)

MaxKeyAdds == 2

\* a Discord-style URL, and a URL with an IPv6 literal as its host
KeyWebhooks == {<<"hookA">>, <<"http://[", SEP, "1]/hook">>}

\* `${rule.target.host}:${rule.target.udp}` for an IPv4 and an IPv6 host
KeyTargets == {<<"10.0.0.5:9000">>, <<"fd00", SEP, "9:9000">>}

KeyAddConnect ==
    \E w \in KeyWebhooks, t \in KeyTargets, p \in AggProtocols :
        /\ NumAdds < MaxKeyAdds
        /\ addToConnectGroup(w, t, "ip1", 1, p)
        /\ UNCHANGED <<now, groupedDisconnects, disconnectTimers, notAgg>>

KeyAddDisconnect ==
    \E w \in KeyWebhooks, t \in KeyTargets :
        /\ NumAdds < MaxKeyAdds
        /\ addToDisconnectGroup(w, t, "ip1", 1, "UDP")
        /\ UNCHANGED <<now, groupedClients, groupTimers, notAgg>>

KeyNext ==
    \/ KeyAddConnect
    \/ KeyAddDisconnect
    \/ GroupTimerFire
    \/ DisconnectTimerFire
    \/ AggTick

SpecKeys == AggInit /\ [][KeyNext]_vars

\* C40: every grouped embed goes to the webhook, and names the protocol and
\* the target, that the insertions of its bucket were called with, also
\* when the webhook URL or the target holds the separator.
C40_KeyRoundTrip ==
    \A j \in FlushIdx : \A i \in AddsOf(j) :
        /\ aggHist[j].webhook = aggHist[i].webhook
        /\ aggHist[j].protocol = aggHist[i].protocol
        /\ aggHist[j].target = aggHist[i].target

-----------------------------------------------------------------------------
(* Specification of the ConnectionBuffer alone: the forwarders' addPending *)
(* calls and the control endpoint's processPendingForPlayer calls are the  *)
(* environment.                                                            *)

MaxPendAdds == 2
MaxLogins == 1
MaxPendTicks == 4

PendStep == BUFFER_TIMEOUT_MS \div 3

PendIPs == {"ip1"}
PendPorts == {1, 2}
PendProtocols == {"TCP"}
PendTargets == {<<"10.0.0.5:9000">>}
PendUsers == {"Steve", "Alex"}

\* how far the timestamp a login reports is from the clock
LoginSkews == {-TOLERANCE_MS, -PendStep, 0, TOLERANCE_MS}

NumLogins == Cardinality({i \in 1..Len(pendHist) : pendHist[i].op = "process"})

PendInit == ClockInit /\ AggregatorInit /\ BufferInit /\ ConfigNone /\ UdpInit /\ TcpInit /\ ServicesInit

CallAddPending ==
    \E ip \in PendIPs, port \in PendPorts, p \in PendProtocols, t \in PendTargets :
        /\ NumPendingAdds < MaxPendAdds
        /\ addPending(ip, port, p, t)
        /\ UNCHANGED <<now, notPend>>

CallProcessPending ==
    \E u \in PendUsers, d \in LoginSkews :
        /\ NumLogins < MaxLogins
        /\ now + d >= 0
        /\ processPendingForPlayer(u, now + d)
        /\ UNCHANGED <<now, notPend>>

PendTick == Tick(PendStep, MaxPendTicks * PendStep) /\ UNCHANGED <<pendVars, notPend>>

PendNext ==
    \/ CallAddPending
    \/ CallProcessPending
    \/ PendingTimerFire
    \/ PendTick

SpecPending == PendInit /\ [][PendNext]_vars

-----------------------------------------------------------------------------
(* Properties of the ConnectionBuffer, read off the history.               *)

PendIdx(op) == {i \in 1..Len(pendHist) : pendHist[i].op = op}

MatchedIds(q) == {pendHist[q].matched[n].id : n \in 1..Len(pendHist[q].matched)}

WasMatched(id) == \E q \in PendIdx("process") : id \in MatchedIds(q)

CallbacksOf(id) == {c \in PendIdx("timeout") : pendHist[c].id = id}

StoredIds == {pending[n].id : n \in 1..Len(pending)}

\* C9 (as claimed): an entry no login correlated leaves the buffer through
\* its own timer, BUFFER_TIMEOUT_MS after its insertion, and its callback has
\* then run exactly once (never more than once); until then it is stored.
C9_TimeoutRunsCallbackOnce ==
    \A a \in PendIdx("add") :
        LET id == pendHist[a].id
            cbs == CallbacksOf(id)
        IN  /\ Cardinality(cbs) <= 1
            /\ \A c \in cbs :
                  /\ pendHist[c].timer = id
                  /\ pendHist[c].at = pendHist[a].at + BUFFER_TIMEOUT_MS
            /\ ~WasMatched(id) =>
                  IF cbs = {} THEN id \in StoredIds ELSE id \notin StoredIds

\* the addPending call that created the entry id
AddOf(id) == CHOOSE a \in PendIdx("add") : pendHist[a].id = id

\* C33: a timeout removes an entry, and runs its callback, only through the
\* timer scheduled at that entry's own insertion, hence never earlier than
\* BUFFER_TIMEOUT_MS after the insertion: the timer of an earlier entry
\* with the same key (correlated or overwritten since) leaves a later entry
\* alone.
C33_NoEarlyTimeout ==
    \A c \in PendIdx("timeout") :
        /\ pendHist[c].timer = pendHist[c].id
        /\ pendHist[c].at >= pendHist[AddOf(pendHist[c].id)].at + BUFFER_TIMEOUT_MS

\* C10: no entry is both returned in `matched` and handed to its timeout
\* callback, in either order, and whenever a callback runs or a match is
\* returned the entry has already been deleted from the Map.
C10_TimeoutAndMatchExclusive ==
    /\ \A c \in PendIdx("timeout") : ~WasMatched(pendHist[c].id)
    /\ \A c \in PendIdx("timeout") : ~pendHist[c].stillInMap
    /\ \A q \in PendIdx("process") : ~pendHist[q].stillInMap
    /\ \A q \in PendIdx("process") : MatchedIds(q) \cap StoredIds = {}
    /\ \A c \in PendIdx("timeout") : pendHist[c].id \notin StoredIds

\* C10 witness: an entry was returned in `matched` and the timer scheduled
\* for it fired afterwards, and another entry was consumed by a timeout
C10_Witness ==
    /\ \E q \in PendIdx("process"), x \in PendIdx("expired") :
          q < x /\ pendHist[x].timer \in MatchedIds(q)
    /\ PendIdx("timeout") # {}

\* a step that is one call of processPendingForPlayer
ProcessStep ==
    /\ Len(pendHist') = Len(pendHist) + 1
    /\ pendHist'[Len(pendHist')].op = "process"

\* the entries of a buffer whose arrival is less than TOLERANCE_MS from ts
InWindow(map, ts) == {i \in 1..Len(map) : Abs(map[i].timestamp - ts) < TOLERANCE_MS}

\* C11: processPendingForPlayer(user, ts) returns as matched exactly the
\* stored entries whose arrival timestamp is within the 30 000 ms window of
\* ts (distance below 30 000 ms), whatever the user; exactly these leave the
\* buffer in the same step; unmatched is exactly what the buffer holds
\* afterwards, and the entries outside the window stay as they were, in
\* their order.
C11_ProcessReturnsWindow ==
    [][ProcessStep =>
        LET e == pendHist'[Len(pendHist')]
            win == InWindow(pending, e.ts)
            In(p) == \E i \in win : pending[i] = p
            Out(p) == ~In(p)
        IN  /\ {e.matched[n] : n \in 1..Len(e.matched)} = {pending[i] : i \in win}
            /\ Len(e.matched) = Cardinality(win)
            /\ {pending'[n] : n \in 1..Len(pending')}
                   = {pending[i] : i \in (1..Len(pending)) \ win}
            /\ pending' = SelectSeq(pending, Out)
            /\ e.unmatched = pending'
            /\ pendingTimers' = pendingTimers]_vars

\* C11 witness: a call returned an entry as matched and left one that is
\* exactly TOLERANCE_MS away from ts in the buffer
C11_Witness ==
    \E q \in PendIdx("process") :
        /\ pendHist[q].matched # <<>>
        /\ \E n \in 1..Len(pendHist[q].unmatched) :
              /\ Abs(pendHist[q].unmatched[n].timestamp - pendHist[q].ts) = TOLERANCE_MS
              /\ pendHist[q].unmatched[n].id \in StoredIds

-----------------------------------------------------------------------------
(* Specification of the TimestampPlayerMapper with the sweep main()        *)
(* schedules: the management API's calls are the environment.              *)

MaxMapCalls == 3
MaxSweeps == 6

HalfTolerance == TIMESTAMP_TOLERANCE_MS \div 2

MapUsers == {"Steve", "Alex"}

\* how far the timestamp of a login is from the clock
RegSkews == {-MAX_AGE_MS, 0, HalfTolerance}

\* how far the timestamp of a logout or a lookup is from the clock
AskSkews == {-TIMESTAMP_TOLERANCE_MS, 0, HalfTolerance}

\* main(): the sweep is scheduled in both modes, the API only with useRestApi
MapperSpecInit ==
    /\ ClockInit /\ AggregatorInit /\ BufferInit /\ UdpInit /\ TcpInit
    /\ rule = [haproxy |-> FALSE, webhook |-> <<>>, host |-> HostNumeric]
    /\ useRestApi \in BOOLEAN
    /\ playerMap = <<>>
    /\ sweepTimers = {SWEEP_MS}
    /\ mapRet = NoCall
    /\ PersistOff /\ ApiOff /\ CodecOff

notMap == <<aggVars, pendVars, cfgVars, udpVars, tcpVars, ipVars, apiVars, codecVars>>

CallRegisterLogin ==
    \E u \in MapUsers, d \in RegSkews :
        /\ useRestApi
        /\ mapRet.n < MaxMapCalls
        /\ registerLogin(now + d, u)
        /\ UNCHANGED <<now, sweepTimers, notMap>>

CallRegisterLogout ==
    \E u \in MapUsers, d \in AskSkews :
        /\ useRestApi
        /\ mapRet.n < MaxMapCalls
        /\ registerLogout(now + d, u)
        /\ UNCHANGED <<now, sweepTimers, notMap>>

CallFindPlayer ==
    \E d \in AskSkews :
        /\ useRestApi
        /\ mapRet.n < MaxMapCalls
        /\ findPlayerByTimestamp(now + d)
        /\ UNCHANGED <<now, sweepTimers, notMap>>

MapSweep == SweepTimerFire /\ UNCHANGED <<now, notMap>>

MapTick == Tick(SWEEP_MS, MaxSweeps * SWEEP_MS) /\ UNCHANGED <<mapVars, notMap>>

MapNext ==
    \/ CallRegisterLogin
    \/ CallRegisterLogout
    \/ CallFindPlayer
    \/ MapSweep
    \/ MapTick

SpecMapper == MapperSpecInit /\ [][MapNext]_vars

-----------------------------------------------------------------------------
(* Properties of the TimestampPlayerMapper.                                *)

\* a step that is one call of the given method
MapStep(op) == mapRet' # mapRet /\ mapRet'.op = op

Dist(value, ts) == Abs(value.timestamp - ts)

\* C14: findPlayerByTimestamp(ts) returns a username exactly when the map
\* holds an entry with |stored - ts| < 30 000 ms; the username is then that
\* of an entry in tolerance that no other entry in tolerance is closer than;
\* otherwise it returns null.  The lookup leaves the map as it was.
C14_FindReturnsClosest ==
    [][MapStep("find") =>
        LET ts == mapRet'.ts
            Q == {i \in 1..Len(playerMap) : Dist(playerMap[i], ts) < TIMESTAMP_TOLERANCE_MS}
        IN  /\ (mapRet'.ret # NoPlayer) <=> (Q # {})
            /\ Q # {} =>
                  \E i \in Q :
                      /\ playerMap[i].username = mapRet'.ret
                      /\ \A j \in Q : Dist(playerMap[i], ts) <= Dist(playerMap[j], ts)
            /\ playerMap' = playerMap]_vars

\* C14 witness: a lookup with two entries of different users in tolerance
\* returned the user of the later, closer one
C14_Witness ==
    /\ mapRet.op = "find"
    /\ \E i, j \in 1..Len(playerMap) :
          /\ i < j
          /\ Dist(playerMap[i], mapRet.ts) < TIMESTAMP_TOLERANCE_MS
          /\ Dist(playerMap[j], mapRet.ts) < Dist(playerMap[i], mapRet.ts)
          /\ playerMap[i].username # playerMap[j].username
          /\ mapRet.ret = playerMap[j].username

\* the entries of the map with the given timestamp
AtTs(map, ts) == {i \in 1..Len(map) : map[i].timestamp = ts}

\* C37: the map holds at most one entry per timestamp; registerLogin(ts, u)
\* for a timestamp already present overwrites that entry in place, whatever
\* its username, and otherwise adds one; every other entry stays; right after
\* the call findPlayerByTimestamp(ts) returns u, and when the overwritten
\* entry had another username, no entry at ts has it (getAllPlayers lists
\* none) and a registerLogout(ts, that username) does not touch the entry
\* at ts.
C37_OneEntryPerTimestamp ==
    /\ [](\A i, j \in 1..Len(playerMap) :
             playerMap[i].timestamp = playerMap[j].timestamp => i = j)
    /\ [][MapStep("login") =>
            LET ts == mapRet'.ts
                u == mapRet'.user
                old == AtTs(playerMap, ts)
            IN  /\ Len(playerMap') = Len(playerMap) + (IF old = {} THEN 1 ELSE 0)
                /\ \A i \in 1..Len(playerMap) :
                      IF i \in old
                      THEN playerMap'[i].timestamp = ts /\ playerMap'[i].username = u
                      ELSE playerMap'[i] = playerMap[i]
                /\ \A i \in AtTs(playerMap', ts) : playerMap'[i].username = u
                /\ AtTs(playerMap', ts) # {}
                /\ BestFrom(playerMap', 1, NoBest, ts).username = u
                /\ \A i \in old :
                      playerMap[i].username # u =>
                          LET was == playerMap[i].username
                              after == LogoutFrom(playerMap', 1, ts, was)
                          IN  /\ \A k \in 1..Len(playerMap') :
                                    ~(playerMap'[k].timestamp = ts /\ playerMap'[k].username = was)
                              /\ \E k \in 1..Len(after) :
                                    after[k].timestamp = ts /\ after[k].username = u]_vars

\* C37 witness: a login overwrote the entry another user had registered at
\* the same timestamp; the entry kept its place ahead of a later one
C37_Witness ==
    /\ mapRet.op = "login"
    /\ Len(mapRet.removed) = 1
    /\ mapRet.removed[1].timestamp = mapRet.ts
    /\ mapRet.removed[1].username # mapRet.user
    /\ \E i, j \in 1..Len(playerMap) :
          /\ i < j
          /\ playerMap[i].timestamp = mapRet.ts
          /\ playerMap[i].username = mapRet.user

\* C15: registerLogout(ts, user) removes exactly one entry, the first in Map
\* order of those with username = user and a stored timestamp within the
\* tolerance of ts (distance below T = 30 000 ms), and leaves every other
\* entry where it was; with no such entry the map is unchanged.
C15_LogoutRemovesFirstMatch ==
    [][MapStep("logout") =>
        LET ts == mapRet'.ts
            user == mapRet'.user
            Q == {i \in 1..Len(playerMap) :
                     /\ playerMap[i].username = user
                     /\ Dist(playerMap[i], ts) < TIMESTAMP_TOLERANCE_MS}
        IN  IF Q = {}
            THEN playerMap' = playerMap
            ELSE LET m == Min(Q)
                 IN  /\ Len(playerMap') = Len(playerMap) - 1
                     /\ \A k \in 1..Len(playerMap') :
                           playerMap'[k] = IF k < m THEN playerMap[k] ELSE playerMap[k + 1]
                     /\ mapRet'.removed = <<playerMap[m]>>]_vars

\* C15 witness: a logout removed an entry and a later entry of the same user,
\* also within the tolerance, is still stored
C15_Witness ==
    /\ mapRet.op = "logout"
    /\ Len(mapRet.removed) = 1
    /\ \E i \in 1..Len(playerMap) :
          /\ playerMap[i].username = mapRet.user
          /\ Dist(playerMap[i], mapRet.ts) < TIMESTAMP_TOLERANCE_MS
          /\ playerMap[i].at >= mapRet.removed[1].at

\* C16: a sweep removes exactly the entries whose timestamp is more than
\* 5 minutes before now and keeps all others, in their order; the sweep is
\* armed at 60 s intervals in both modes, so an entry stays at most one
\* interval past the later of its registration and its fifth minute, and is
\* then evicted; no entry of 5 minutes or less is evicted by the sweep.
C16_SweepEvictsOld ==
    /\ [][sweepTimers' # sweepTimers =>
            LET Old(value) == now - value.timestamp > MAX_AGE_MS
                Young(value) == ~Old(value)
            IN  /\ playerMap' = SelectSeq(playerMap, Young)
                /\ mapRet'.removed = SelectSeq(playerMap, Old)
                /\ \A i \in 1..Len(playerMap) :
                      Young(playerMap[i]) => \E k \in 1..Len(playerMap') : playerMap'[k] = playerMap[i]
                /\ \A k \in 1..Len(playerMap') : Young(playerMap'[k])]_vars
    /\ [](\E t \in sweepTimers : now <= t /\ t <= now + SWEEP_MS)
    /\ [](\A i \in 1..Len(playerMap) :
              now <= Max({playerMap[i].at, playerMap[i].timestamp + MAX_AGE_MS}) + SWEEP_MS)

\* C16 witness: a sweep evicted a login that had aged in the map (it was
\* registered with a current timestamp) and kept a younger one
C16_Witness ==
    /\ mapRet.op = "cleanup"
    /\ playerMap # <<>>
    /\ \E n \in 1..Len(mapRet.removed) :
          /\ mapRet.removed[n].timestamp >= mapRet.removed[n].at
          /\ now - mapRet.removed[n].timestamp <= MAX_AGE_MS + SWEEP_MS

-----------------------------------------------------------------------------
(* Specification of the PlayerIPMapper: the file found at start, the       *)
(* constructor, then the calls of the management API and of a maintainer.  *)

MaxIpCalls == 3
MaxIpTicks == 1

IpStep == THIRTY_DAYS \div 2

\* the clock at start, and two dates before it: one past the cutoff of
\* cleanup already, one that passes it after a step of the clock
IpEpoch == 2 * THIRTY_DAYS

OldDate == IpEpoch - THIRTY_DAYS - IpStep

RecentDate == IpEpoch - IpStep

IpAddrs == {"198.51.100.7", "203.0.113.9"}

\* the address and protocol of a matched flow
IpFlows == {<<"198.51.100.7", "TCP">>, <<"203.0.113.9", "UDP">>}

IpPorts == {25565, 19132}

\* entries of the legacy shape; lastSeen 0 is an entry without lastSeen
LegacyEntries ==
    {[ip |-> i, protocol |-> "TCP", lastSeen |-> l, ports |-> <<80, 443>>] :
        i \in IpAddrs, l \in {0, OldDate, RecentDate}}

LegacyIps ==
    {<<>>} \cup {<<e>> : e \in LegacyEntries}
           \cup {<<e1, e2>> : e1 \in {e \in LegacyEntries : e.ip = "198.51.100.7"},
                              e2 \in {e \in LegacyEntries : e.ip = "203.0.113.9"}}

\* a record already of the present shape
AlexRecord ==
    [username |-> "Alex", ips |-> <<[ip |-> "203.0.113.9", protocol |-> "UDP", lastSeen |-> RecentDate]>>]

FileDocs ==
    {Absent, NotJson}
        \cup {Stringify(<<[username |-> "Steve", ips |-> ips]>>) : ips \in LegacyIps}
        \cup {Stringify(<<[username |-> "Steve", ips |-> <<e>>], AlexRecord>>) : e \in LegacyEntries}

PersistSpecInit ==
    /\ now = IpEpoch
    /\ AggregatorInit /\ BufferInit /\ ConfigNone /\ UdpInit /\ TcpInit /\ MapperInit /\ ApiOff /\ CodecOff
    /\ storage = <<>>
    /\ file \in FileDocs
    /\ enabled \in BOOLEAN
    /\ ipHist = NoIpCall

notIp == <<aggVars, pendVars, cfgVars, udpVars, tcpVars, mapVars, apiVars, codecVars>>

IpConstruct ==
    \E ok \in BOOLEAN :
        /\ ~ipHist.booted
        /\ Construct(ok)
        /\ UNCHANGED <<now, enabled, notIp>>

CallRegisterPlayerIP ==
    \E u \in IpUsers, f \in IpFlows, port \in IpPorts, ok \in BOOLEAN :
        /\ ipHist.booted /\ ipHist.n < MaxIpCalls
        /\ registerPlayerIP(u, f[1], port, f[2], ok)
        /\ UNCHANGED <<now, notIp>>
        /\ enabled' = enabled

CallRemovePlayer ==
    \E u \in IpUsers, ok \in BOOLEAN :
        /\ ipHist.booted /\ ipHist.n < MaxIpCalls
        /\ removePlayer(u, ok)
        /\ UNCHANGED <<now, notIp>>
        /\ enabled' = enabled

CallIpCleanup ==
    \E ok \in BOOLEAN :
        /\ ipHist.booted /\ ipHist.n < MaxIpCalls
        /\ ipCleanup(ok)
        /\ UNCHANGED <<now, notIp>>
        /\ enabled' = enabled

IpTick ==
    /\ ipHist.booted
    /\ Tick(IpStep, IpEpoch + MaxIpTicks * IpStep)
    /\ UNCHANGED <<ipVars, notIp>>

IpNext ==
    \/ IpConstruct
    \/ CallRegisterPlayerIP
    \/ CallRemovePlayer
    \/ CallIpCleanup
    \/ IpTick

SpecPersist == PersistSpecInit /\ [][IpNext]_vars

-----------------------------------------------------------------------------
(* Properties of the PlayerIPMapper.                                       *)

RecordsOf(username) == {i \in 1..Len(storage) : storage[i].username = username}

\* C18: with persistence enabled, whatever load, register, removePlayer and
\* cleanup calls were made, a username has at most one record and it holds
\* at most one IP entry; if a register call was made for the username, the
\* entry is {ip, protocol} of the latest such call with lastSeen the clock
\* at that call, and nothing of the port; after cleanup no record with an
\* empty list remains.
C18_SingleLatestEntry ==
    (enabled /\ ipHist.booted) =>
        /\ \A u \in IpUsers : Cardinality(RecordsOf(u)) <= 1
        /\ \A i \in 1..Len(storage) :
              LET r == storage[i]
                  reg == ipHist.reg[r.username]
              IN  /\ Len(r.ips) <= 1
                  /\ (Len(r.ips) = 1 /\ reg # NoReg) =>
                        r.ips[1] = [ip |-> reg.ip, protocol |-> reg.protocol, lastSeen |-> reg.at]
                  /\ reg # NoReg => Len(r.ips) = 1
        /\ ipHist.op = "cleanup" => \A i \in 1..Len(storage) : storage[i].ips # <<>>

\* C18 witness: the file held two entries for a user, both TCP; a register
\* call with UDP was made later on, and the record holds that one entry
C18_Witness ==
    /\ enabled /\ ipHist.op = "register" /\ ipHist.doc.kind = "json"
    /\ now > IpEpoch
    /\ \E k \in 1..Len(ipHist.doc.records) :
          /\ ipHist.doc.records[k].username = ipHist.user
          /\ Len(ipHist.doc.records[k].ips) = 2
    /\ \E i \in RecordsOf(ipHist.user) :
          /\ storage[i].ips[1].protocol = "UDP"
          /\ storage[i].ips[1].lastSeen = ipHist.at

\* lastSeen as load compares it: an entry without one counts as 0
GreatestLastSeen(ips) == Max({ips[n].lastSeen : n \in 1..Len(ips)})

\* C19: right after load of a JSON document, every record of the document
\* that carries IP entries (legacy `ports` arrays included) is stored with
\* an ips list of exactly one entry, made of ip, protocol and lastSeen only
\* (no ports), taken from an entry of the record with the greatest lastSeen;
\* and unless the write failed, the file holds the normalized records.
C19_LoadNormalizes ==
    (enabled /\ ipHist.op = "load" /\ ipHist.doc.kind = "json") =>
        /\ \A k \in 1..Len(ipHist.doc.records) :
              LET r == ipHist.doc.records[k]
              IN  r.ips # <<>> =>
                    \E i \in RecordsOf(r.username) :
                        /\ Len(storage[i].ips) = 1
                        /\ DOMAIN storage[i].ips[1] = {"ip", "protocol", "lastSeen"}
                        /\ \E n \in 1..Len(r.ips) :
                              /\ r.ips[n].lastSeen = GreatestLastSeen(r.ips)
                              /\ storage[i].ips[1].ip = r.ips[n].ip
                              /\ storage[i].ips[1].protocol = r.ips[n].protocol
                              /\ storage[i].ips[1].lastSeen =
                                    IF r.ips[n].lastSeen # 0 THEN r.ips[n].lastSeen ELSE ipHist.at
        /\ ipHist.saved
        /\ ipHist.wrote => file = Stringify(storage)
        /\ ipHist.wrote =>
              \A k \in 1..Len(file.records) : \A n \in 1..Len(file.records[k].ips) :
                  "ports" \notin DOMAIN file.records[k].ips[n]

\* C19 witness: the document held a record with two entries carrying ports,
\* the second one the more recent; the second one is what is stored and
\* what the file holds now
C19_Witness ==
    /\ enabled /\ ipHist.op = "load" /\ ipHist.doc.kind = "json" /\ ipHist.wrote
    /\ file # ipHist.doc
    /\ \E k \in 1..Len(ipHist.doc.records) :
          LET r == ipHist.doc.records[k]
          IN  /\ Len(r.ips) = 2
              /\ "ports" \in DOMAIN r.ips[1] /\ "ports" \in DOMAIN r.ips[2]
              /\ r.ips[2].lastSeen > r.ips[1].lastSeen /\ r.ips[1].lastSeen > 0
              /\ \E i \in RecordsOf(r.username) : storage[i].ips[1].ip = r.ips[2].ip
              /\ \E j \in 1..Len(file.records) :
                    /\ file.records[j].username = r.username
                    /\ file.records[j].ips = <<[ip |-> r.ips[2].ip, protocol |-> r.ips[2].protocol,
                                                 lastSeen |-> r.ips[2].lastSeen]>>

\* C20: with persistence enabled, every step that changes the records in
\* memory (load, register, removePlayer, cleanup) calls save(); when the
\* write succeeds the document on disk is the list of records in memory
\* after the step; when it fails the file is left as it was and the
\* records in memory are those the operation produced.
C20_FileFollowsMemory ==
    [][(enabled /\ storage' # storage) =>
          /\ ipHist'.saved
          /\ ipHist'.wrote => file' = Stringify(storage')
          /\ ~ipHist'.wrote => file' = file]_vars

\* C20 witness: a cleanup removed a record and rewrote the file, which now
\* holds what memory holds, one record less than the document loaded
C20_Witness ==
    /\ enabled /\ ipHist.op = "cleanup" /\ ipHist.wrote
    /\ ipHist.doc.kind = "json"
    /\ file = Stringify(storage)
    /\ Len(storage) < Len(ipHist.doc.records)
    /\ storage # <<>>

\* C21: with persistence disabled the constructor does not run the loader,
\* and registerPlayerIP, removePlayer and cleanup change neither the records
\* in memory nor the file: whatever calls were made, the file is the document
\* found at start, no call has saved, and getPlayerIPs returns no record for
\* any username.
C21_DisabledIsInert ==
    (~enabled /\ ipHist.booted) =>
        /\ storage = <<>>
        /\ file = ipHist.doc
        /\ ~ipHist.saved /\ ~ipHist.wrote
        /\ \A u \in IpUsers : getPlayerIPs(u) = <<>>

\* C21 witness: disabled, the file holds records of Steve and Alex; a register
\* call for Steve was the second call made after construction
C21_Witness ==
    /\ ~enabled /\ ipHist.booted
    /\ ipHist.op = "register" /\ ipHist.user = "Steve" /\ ipHist.n >= 3
    /\ file.kind = "json" /\ Len(file.records) = 2
    /\ getPlayerIPs("Steve") = <<>>

-----------------------------------------------------------------------------
(* Specification of the management API in correlation mode, with the       *)
(* buffer, the mapper and the IP mapper behind it; the forwarders' calls   *)
(* of addPending are the environment.  The run ends before the first       *)
(* sweep of the mapper.                                                    *)

MaxApiFlows == 2
MaxApiCalls == 2
MaxApiTicks == 3

\* cfg.listeners.map(rule => rule.webhook).filter(non-blank): one listener,
\* two listeners sharing a webhook, two listeners with a webhook each
ApiWebhookLists ==
    {<< <<"hookA">> >>, << <<"hookA">>, <<"hookA">> >>, << <<"hookA">>, <<"hookB">> >>}

\* ip, port, protocol of the flows the forwarders report
ApiFlows ==
    {<<"198.51.100.7", 50001, "TCP">>, <<"198.51.100.7", 50002, "TCP">>,
     <<"203.0.113.9", 50003, "UDP">>}

ApiUsers == {"Steve"}

\* how far the timestamp in a request body is from the clock
ApiSkews == {-(PendStep \div 2), TOLERANCE_MS}

ApiSpecInit ==
    /\ ClockInit /\ AggregatorInit /\ BufferInit /\ UdpInit /\ TcpInit
    /\ rule = [haproxy |-> FALSE, webhook |-> <<"hookA">>, host |-> HostNumeric]
    /\ useRestApi = TRUE
    /\ playerMap = <<>> /\ sweepTimers = {SWEEP_MS} /\ mapRet = NoCall
    /\ storage = <<>> /\ file = Absent /\ enabled \in BOOLEAN
    /\ ipHist = [NoIpCall EXCEPT !.booted = TRUE]
    /\ webhooks \in ApiWebhookLists
    /\ apiHist = NoRequest
    /\ CodecOff

notApi == <<aggVars, cfgVars, udpVars, tcpVars, codecVars>>

ApiFlow ==
    \E f \in ApiFlows, t \in PendTargets :
        /\ NumPendingAdds < MaxApiFlows
        /\ addPending(f[1], f[2], f[3], t)
        /\ UNCHANGED <<now, notApi, svcVars>>

ApiPostLogin ==
    \E u \in ApiUsers, d \in ApiSkews, ok \in BOOLEAN :
        /\ apiHist.n < MaxApiCalls
        /\ ApiLogin(now + d, u, ok)
        /\ UNCHANGED <<now, notApi, sweepTimers, enabled, webhooks>>

ApiPostLogout ==
    \E u \in ApiUsers, d \in ApiSkews :
        /\ apiHist.n < MaxApiCalls
        /\ ApiLogout(now + d, u)
        /\ UNCHANGED <<now, notApi, pendVars, sweepTimers, ipVars, webhooks>>

ApiPostInvalid ==
    /\ apiHist.n < MaxApiCalls
    /\ ApiRejected
    /\ UNCHANGED <<now, notApi, sweepTimers, enabled, webhooks>>

ApiPendingTimer == PendingTimerFire /\ UNCHANGED svcVars

ApiTick == Tick(PendStep, MaxApiTicks * PendStep) /\ UNCHANGED <<pendVars, notApi, svcVars>>

ApiNext ==
    \/ ApiFlow
    \/ ApiPostLogin
    \/ ApiPostLogout
    \/ ApiPostInvalid
    \/ ApiPendingTimer
    \/ ApiTick

SpecApi == ApiSpecInit /\ [][ApiNext]_vars

-----------------------------------------------------------------------------
(* Properties of the management API.                                       *)

\* the webhook URLs configured on some listener
ConfiguredUrls == {webhooks[k] : k \in 1..Len(webhooks)}

\* the embeds of a kind the latest request sent to a URL about an address
EmbedsTo(url, kind, ip, protocol) ==
    {k \in 1..Len(apiHist.sent) :
        /\ apiHist.sent[k].webhook = url /\ apiHist.sent[k].kind = kind
        /\ apiHist.sent[k].ip = ip /\ apiHist.sent[k].protocol = protocol
        /\ apiHist.sent[k].username = apiHist.username}

\* C12 (as claimed): after a login request in correlation mode, for every
\* (ip, protocol) among the matched pending records and every configured
\* webhook URL exactly one join embed naming the user was sent, carrying the
\* ports of the matched records of that group; no other join embed was
\* sent; and every URL was sent exactly one generic login embed if nothing
\* matched, none otherwise.
C12_LoginWebhooks ==
    (apiHist.route = "login" /\ useRestApi) =>
        LET matched == apiHist.matched
            M == 1..Len(matched)
        IN  /\ \A i \in M : \A url \in ConfiguredUrls :
                  LET joins == EmbedsTo(url, "join", matched[i].ip, matched[i].protocol)
                      ports == {matched[j].port : j \in {j \in M :
                                   /\ matched[j].ip = matched[i].ip
                                   /\ matched[j].protocol = matched[i].protocol}}
                  IN  /\ Cardinality(joins) = 1
                      /\ \A k \in joins :
                            /\ Range(apiHist.sent[k].ports) = ports
                            /\ Len(apiHist.sent[k].ports) = Cardinality(ports)
            /\ \A k \in 1..Len(apiHist.sent) :
                  apiHist.sent[k].kind = "join" =>
                      \E i \in M : /\ matched[i].ip = apiHist.sent[k].ip
                                    /\ matched[i].protocol = apiHist.sent[k].protocol
            /\ \A url \in ConfiguredUrls :
                  Cardinality(EmbedsTo(url, "login", "", "")) = IF matched = <<>> THEN 1 ELSE 0
            /\ apiHist.status = 200

\* a step that answers a logout request
LogoutAnswered == apiHist' # apiHist /\ apiHist'.route = "logout"

\* C13 (as claimed): a logout request with a valid body unregisters the
\* matching login, looks the user up in the IP mapper, sends every
\* configured URL one leave embed per stored (ip, protocol), or one leave
\* embed without address when nothing is stored, and is answered 200.
C13_LogoutNotifies ==
    [][LogoutAnswered =>
        LET user == apiHist'.username
            ts == apiHist'.timestamp
            Hit == {i \in 1..Len(playerMap) :
                       /\ playerMap[i].username = user
                       /\ Dist(playerMap[i], ts) < TIMESTAMP_TOLERANCE_MS}
            Kept(value) == Hit = {} \/ value # playerMap[Min(Hit)]
            rec == {i \in 1..Len(storage) : storage[i].username = user /\ storage[i].ips # <<>>}
            Leaves(url, ip, protocol) ==
                {k \in 1..Len(apiHist'.sent) :
                    /\ apiHist'.sent[k].webhook = url /\ apiHist'.sent[k].kind = "leave"
                    /\ apiHist'.sent[k].ip = ip /\ apiHist'.sent[k].protocol = protocol
                    /\ apiHist'.sent[k].username = user}
        IN  /\ playerMap' = SelectSeq(playerMap, Kept)
            /\ apiHist'.status = 200
            /\ \A url \in ConfiguredUrls :
                  IF rec = {}
                  THEN Cardinality(Leaves(url, "", "")) = 1
                  ELSE \A i \in rec : \A n \in 1..Len(storage[i].ips) :
                          Cardinality(Leaves(url, storage[i].ips[n].ip,
                                             storage[i].ips[n].protocol)) = 1]_vars

\* a step that answers a request
Answered == apiHist'.n = apiHist.n + 1

\* C34: a request answered 400 leaves the Identity Map, the Pending Buffer
\* and Identity Persistence (memory and file) as they were and sends no
\* embed; so a request that changes one of them is answered 200.
C34_BadRequestChangesNothing ==
    [][(Answered /\ apiHist'.status = 400) =>
          /\ playerMap' = playerMap
          /\ pending' = pending
          /\ storage' = storage /\ file' = file
          /\ apiHist'.sent = <<>>]_vars

-----------------------------------------------------------------------------
(* Specification of one UDP listener with the buffer and the aggregator it *)
(* notifies.  The rule and the mode are fixed at start.                    *)

MaxDatagrams == 2
MaxUdpRounds == 1

UdpStep == CLEANUP_MS

\* one round: the idle period of a session and the window of its leave notice
UdpRound == CLEANUP_MS + GROUP_WINDOW_MS

UdpHosts == {HostNumeric, HostHexName}
UdpWebhooks == {<<>>, <<"hookA">>}

\* what parseProxyV2 returns for a header of the UNSPEC family (a LOCAL
\* header): sourceAddress '' and sourcePort 0
UnspecHeader == [sourceAddress |-> Unresolved, sourcePort |-> 0]

\* a client reaching the listener itself, an IPv6 client behind an upstream
\* proxy that prepends its own PPv2 header, and the same with an UNSPEC
\* header in front of the payload
UdpInputs ==
    { [rinfo |-> [address |-> ClientV4, port |-> 40001], chain |-> <<>>],
      [rinfo |-> [address |-> UpstreamV4, port |-> 55555],
       chain |-> <<[sourceAddress |-> ClientV6, sourcePort |-> 30000]>>],
      [rinfo |-> [address |-> UpstreamV4, port |-> 55555],
       chain |-> <<[sourceAddress |-> ClientV6, sourcePort |-> 30000], UnspecHeader>>] }

\* REST mode only matters to a rule with a webhook, and the resolved target
\* is only read when the header is built
ConfigAny ==
    /\ rule \in [haproxy : BOOLEAN, webhook : UdpWebhooks, host : UdpHosts]
    /\ useRestApi \in BOOLEAN
    /\ useRestApi => HasWebhook
    /\ rule.host.isIP = 0 => rule.haproxy

UdpSpecInit == ClockInit /\ AggregatorInit /\ BufferInit /\ ConfigAny /\ UdpInit /\ TcpInit /\ ServicesInit

NumDatagrams == Cardinality(UdpEvents("recv"))

\* the datagram with the UNSPEC header comes within a session that exists
UdpReceive ==
    \E in \in UdpInputs :
        /\ NumDatagrams < MaxDatagrams
        /\ Len(in.chain) > 1 => sessionKey(in.rinfo.address, in.rinfo.port) \in DOMAIN sessions
        /\ UdpMessage(in.rinfo, [chain |-> in.chain, body |-> NumDatagrams + 1], NumDatagrams + 1)
        /\ UNCHANGED <<now, aggVars, pendVars, notUdp>>

UdpSent ==
    \E f \in udpInFlight, ok \in BOOLEAN :
        /\ UdpSendCallback(f, ok)
        /\ UNCHANGED <<now, notUdp>>

UdpDnsDone ==
    \E sid \in udpDns, ok \in BOOLEAN :
        /\ UdpDnsSettle(sid, ok)
        /\ UNCHANGED <<now, aggVars, pendVars, notUdp>>

UdpIdleTimerFire ==
    \E t \in udpTimers :
        /\ now >= t.at
        /\ UdpIdleTimeout(t)
        /\ UNCHANGED <<now, notUdp>>

\* a send and a lookup settle before the clock's next step
UdpTick ==
    /\ udpInFlight = {} /\ udpDns = {}
    /\ Tick(UdpStep, MaxUdpRounds * UdpRound)
    /\ UNCHANGED <<aggVars, pendVars, cfgVars, udpVars, tcpVars, svcVars>>

UdpNext ==
    \/ UdpReceive
    \/ UdpSent
    \/ UdpDnsDone
    \/ UdpIdleTimerFire
    \/ GroupTimerFire
    \/ DisconnectTimerFire
    \/ PendingTimerFire
    \/ UdpTick

SpecUdp == UdpSpecInit /\ [][UdpNext]_vars

-----------------------------------------------------------------------------
(* Properties of the UDP forwarder.                                        *)

SessionIds == 1..Len(sessionObjs)

\* the sessions the map holds
LiveIds == {sessions[k] : k \in DOMAIN sessions}

EventsOf(op, sid) == {e \in UdpEvents(op) : e.sid = sid}

\* the latest datagram of a session
LastRecv(sid) ==
    LET recvs == EventsOf("recv", sid)
    IN  CHOOSE r \in recvs : \A o \in recvs : o.n <= r.n

\* C3: within one session at most one datagram carries the PPv2 header, and
\* it is the first datagram the session sends
C3_HeaderOnFirstDatagramOnly ==
    \A e \in UdpEvents("send") :
        e.header => \A o \in EventsOf("send", e.sid) : o.n >= e.n

\* C4: one session per client tuple: a datagram of a tuple whose session is
\* live reuses it and its socket, and the notification and the `logged`
\* latch fire at most once in a session
C4_OneSessionPerTuple ==
    /\ \A a, b \in LiveIds :
          (/\ sessionObjs[a].clientAddress = sessionObjs[b].clientAddress
           /\ sessionObjs[a].clientPort = sessionObjs[b].clientPort) => a = b
    /\ LET recvs == UdpEvents("recv")
           evicts == UdpEvents("evict")
       IN  /\ \A r \in recvs :
                  r.created <=>
                      \A o \in recvs :
                          (o.n < r.n /\ o.port = r.port /\ o.ip = r.ip) =>
                              \E x \in evicts : x.sid = o.sid /\ x.at <= r.at
           /\ \A r, o \in recvs :
                  (r.sid = o.sid) => (r.sock = o.sock /\ r.ip = o.ip /\ r.port = o.port)
           /\ Len(sockets) = Cardinality({r \in recvs : r.created})
    /\ \A sid \in SessionIds :
          /\ Cardinality(EventsOf("notify", sid)) <= 1
          /\ Cardinality(EventsOf("logged", sid)) <= 1

\* a session took two datagrams, both sends succeeded, one notification
C4_Witness ==
    \E sid \in SessionIds :
        /\ Cardinality(EventsOf("recv", sid)) >= 2
        /\ Cardinality(EventsOf("acked", sid)) >= 2
        /\ Cardinality(EventsOf("notify", sid)) = 1
        /\ Cardinality(EventsOf("logged", sid)) = 1

\* C5: a session is evicted 60 000 ms after its latest datagram, not sooner;
\* each datagram replaces the armed timer, and no cleared timer fires
C5_IdleEviction ==
    LET live == LiveIds
    IN  /\ \A x \in udpHist :
              x.op = "evict" =>
                  LET last == LastRecv(x.sid)
                  IN  /\ x.at = last.at + CLEANUP_MS
                      /\ x.timer = last.timer
                      /\ \A r \in udpHist : r.op = "recv" => r.cleared # x.timer
                      /\ x.sid \notin live
                      /\ sockets[x.sock].state = "closed"
        /\ \A sid \in live :
              LET last == LastRecv(sid)
              IN  /\ now <= last.at + CLEANUP_MS
                  /\ {t \in udpTimers : t.sid = sid}
                        = {[id |-> last.timer, sid |-> sid,
                            key |-> sessionKey(sessionObjs[sid].clientAddress,
                                               sessionObjs[sid].clientPort),
                            sock |-> sessionObjs[sid].destSocket,
                            at |-> last.at + CLEANUP_MS]}
        /\ \A t \in udpTimers : t.sid \in live

\* a session whose timer was reset at a later instant has been evicted
C5_Witness ==
    \E x \in UdpEvents("evict") :
        \E r \in EventsOf("recv", x.sid) :
            /\ r.cleared # 0
            /\ r.at > 0
            /\ x.at = r.at + CLEANUP_MS

\* C6: a session has one egress socket of its own, open while the session
\* is in the map, closed once by the expiry that removes the session
C6_OneSocketPerSession ==
    /\ Len(sockets) = Len(sessionObjs)
    /\ \A sid \in SessionIds :
          /\ sockets[sessionObjs[sid].destSocket].owner = sid
          /\ \A o \in SessionIds : sessionObjs[o].destSocket = sessionObjs[sid].destSocket => o = sid
          /\ \A e \in udpHist : (e.op = "send" /\ e.sid = sid) => e.sock = sessionObjs[sid].destSocket
          /\ sid \in LiveIds <=> sockets[sessionObjs[sid].destSocket].state = "open"
    /\ \A k \in 1..Len(sockets) :
          /\ sockets[k].closes = Cardinality({x \in udpHist : x.op = "evict" /\ x.sock = k})
          /\ sockets[k].closes = IF sockets[k].state = "closed" THEN 1 ELSE 0

\* one session's socket was closed by its expiry while another session lives
C6_Witness ==
    \E a, b \in SessionIds :
        /\ a \notin LiveIds
        /\ sockets[sessionObjs[a].destSocket].closes = 1
        /\ b \in LiveIds
        /\ sockets[sessionObjs[b].destSocket].state = "open"

\* the datagram as it was received, for the send event e
Received(e) == CHOOSE r \in UdpEvents("recv") : r.n = e.n

\* the last header of a chain
LastHeader(chain) == chain[Len(chain)]

\* C26 (as claimed): every datagram that begins with a PPv2 chain is sent
\* with the source address and port of the chain's last header as the
\* original client and with only the bytes after the chain; a datagram
\* without a chain is sent unchanged with the socket peer as the original
\* client.
C26_LastHeaderAdopted ==
    \A e \in UdpEvents("send") :
        IF Received(e).data.chain # <<>>
        THEN /\ e.ip = LastHeader(Received(e).data.chain).sourceAddress.text
             /\ e.port = LastHeader(Received(e).data.chain).sourcePort
             /\ e.data = [chain |-> <<>>, body |-> Received(e).data.body]
        ELSE /\ e.ip = Received(e).ip /\ e.port = Received(e).port
             /\ e.data = Received(e).data

\* C26 (amended): the address of the chain's last header is adopted when it
\* is not empty and its port when it is not 0; otherwise the socket peer's
\* address, or port, stays.  Only the bytes after the chain are sent; a
\* datagram without a chain is sent unchanged with the socket peer as the
\* original client.
C26_LastHeaderOrPeer ==
    \A e \in UdpEvents("send") :
        IF Received(e).data.chain # <<>>
        THEN /\ e.ip = IF LastHeader(Received(e).data.chain).sourceAddress.text # ""
                       THEN LastHeader(Received(e).data.chain).sourceAddress.text
                       ELSE Received(e).ip
             /\ e.port = IF LastHeader(Received(e).data.chain).sourcePort # 0
                         THEN LastHeader(Received(e).data.chain).sourcePort
                         ELSE Received(e).port
             /\ e.data = [chain |-> <<>>, body |-> Received(e).data.body]
        ELSE /\ e.ip = Received(e).ip /\ e.port = Received(e).port
             /\ e.data = Received(e).data

\* C26 witness: a later datagram of a session came with a chain of two
\* headers, the last one of the UNSPEC family, and was sent without the
\* chain for the socket peer; the session's first datagram had adopted the
\* source of a chain of one header
C26_Witness ==
    \E e1, e2 \in UdpEvents("send") :
        /\ e1.sid = e2.sid /\ e1.n < e2.n
        /\ Len(Received(e1).data.chain) = 1 /\ e1.ip = ClientV6.text /\ e1.port = 30000
        /\ Len(Received(e2).data.chain) = 2 /\ ~Received(e2).created
        /\ e2.ip = UpstreamV4.text /\ e2.port = 55555
        /\ e2.data = [chain |-> <<>>, body |-> e2.n]

\* the add_connect calls and the addPending calls made so far
ConnectAdds == {i \in 1..Len(aggHist) : aggHist[i].op = "add" /\ aggHist[i].fam = "connect"}

PendingAdds == {i \in 1..Len(pendHist) : pendHist[i].op = "add"}

\* the add_disconnect calls made so far
DisconnectAdds == {i \in 1..Len(aggHist) : aggHist[i].op = "add" /\ aggHist[i].fam = "disconnect"}

\* the add_disconnect calls the expiry e made
LeavesOf(e) ==
    {i \in DisconnectAdds : aggHist[i].at = e.at /\ aggHist[i].ip = e.ip /\ aggHist[i].port = e.port}

\* a datagram of the session sid was sent successfully
Acked(sid) == \E a \in UdpEvents("acked") : a.sid = sid

\* C30: every expiry of an idle timer on a listener with a webhook and not
\* in REST mode calls add_disconnect for the session's client, in the same
\* callback and ahead of the close (also when the close then raises), whether
\* or not a datagram of the session was ever sent successfully; the
\* player-leave embed is only sent for a session with a player name; with no
\* webhook, or in REST mode, a session without a name causes no leave at all.
C30_IdleLeave ==
    /\ \A e \in UdpEvents("evict") :
          IF HasWebhook /\ ~useRestApi /\ sessionObjs[e.sid].playerName = ""
          THEN LeavesOf(e) # {}
          ELSE LeavesOf(e) = {}
    /\ \A l \in UdpEvents("leave") : HasWebhook /\ sessionObjs[l.sid].playerName # ""
    /\ Cardinality(DisconnectAdds) =
          IF HasWebhook /\ ~useRestApi THEN Cardinality(UdpEvents("evict")) ELSE 0

\* C30 witness: the idle timer of a session whose sends all failed (no
\* connect was notified) expired, its socket was closed, and the leave is in
\* the aggregator
C30_Witness ==
    \E e \in UdpEvents("evict") :
        /\ HasWebhook /\ ~useRestApi
        /\ ~Acked(e.sid) /\ ~sessionObjs[e.sid].notified
        /\ sockets[e.sock].state = "closed"
        /\ LeavesOf(e) # {}

\* C35: outside REST mode, the (ip, port) an idle expiry passes to
\* add_disconnect is the (ip, port) that was passed to add_connect for the
\* same session, also for a session whose datagrams carried a PPv2 chain.
C35_LeaveMatchesJoin ==
    ~useRestApi =>
        \A e \in UdpEvents("evict") : \A n \in UdpEvents("notify") :
            (e.sid = n.sid /\ LeavesOf(e) # {}) =>
                /\ n.ip = e.ip /\ n.port = e.port
                /\ \E i \in ConnectAdds : aggHist[i].ip = e.ip /\ aggHist[i].port = e.port

C39_NeverNamed ==
    /\ \A sid \in SessionIds : sessionObjs[sid].playerName = ""
    /\ UdpEvents("leave") = {}
    /\ useRestApi =>
          /\ \A e \in UdpEvents("evict") : LeavesOf(e) = {}
          /\ Cardinality(PendingAdds) = Cardinality(UdpEvents("notify"))

\* C39 witness: in REST mode a session whose connect was notified expired,
\* its socket was closed, and nothing announced the leave
C39_Witness ==
    \E e \in UdpEvents("evict") :
        /\ useRestApi /\ HasWebhook
        /\ sessionObjs[e.sid].notified
        /\ sockets[e.sock].state = "closed"
        /\ DisconnectAdds = {}

\* the datagram of the send event s opened its session
FirstOfSession(s) == \E r \in UdpEvents("recv") : r.n = s.n /\ r.created

\* C38: every datagram is sent to the backend in the step that receives it
\* (none waits for the resolver); a header built for a numeric target carries
\* that address; for a target given by name the header is on the session's
\* first datagram only and its destination is the configured host string.
C38_FirstHeaderRawHost ==
    /\ \A r \in UdpEvents("recv") :
          \E s \in UdpEvents("send") : s.n = r.n /\ s.sid = r.sid /\ s.at = r.at
    /\ \A s \in UdpEvents("send") :
          s.header =>
              /\ s.hdr.dst = rule.host.text
              /\ rule.host.isIP = 0 => FirstOfSession(s)

-----------------------------------------------------------------------------
(* Specification of one TCP connection: the client, the backend, the       *)
(* resolver and the event loop are the environment.                        *)

MaxChunks == 2

TcpClients == {[address |-> ClientV4, port |-> 40001], [address |-> ClientV6, port |-> 30000]}

\* the first chunk may start with the PPv2 header of an upstream proxy
TcpChains ==
    {<<>>, <<[sourceAddress |-> ClientV6, sourcePort |-> 30000]>>,
     <<[sourceAddress |-> UpstreamV4, sourcePort |-> 55555]>>}

TcpSpecInit == ClockInit /\ AggregatorInit /\ BufferInit /\ ConfigAny /\ UdpInit /\ TcpInit /\ ServicesInit

TcpAccept ==
    \E client \in TcpClients :
        /\ conn.pc = "listening"
        /\ TcpConnection(client.address, client.port)
        /\ UNCHANGED <<now, aggVars, pendVars, notTcp>>

\* the client sends its next chunk: it waits in the stream's buffer
TcpClientSend ==
    \E chain \in TcpChains :
        /\ conn.pc \notin {"listening", "ended"}
        /\ ~conn.closed
        /\ conn.sent < MaxChunks
        /\ conn.sent > 0 => chain = <<>>
        /\ conn' = [conn EXCEPT !.sent = @ + 1,
                                !.rbuf = Append(@, [id |-> conn.sent + 1, chain |-> chain])]
        /\ UNCHANGED <<now, aggVars, pendVars, notTcp>>

TcpEmit ==
    /\ ~conn.closed
    /\ conn.flowing = "true"
    /\ conn.rbuf # <<>>
    /\ TcpData
    /\ UNCHANGED <<now, aggVars, pendVars, notTcp>>

TcpConnect ==
    /\ conn.pc = "connecting"
    /\ TcpConnected
    /\ UNCHANGED <<now, notTcp>>

TcpConnectFail ==
    /\ conn.pc = "connecting"
    /\ TcpConnectError
    /\ UNCHANGED <<now, aggVars, pendVars, notTcp>>

TcpDnsDone ==
    \E ok \in BOOLEAN :
        /\ conn.pc = "resolving"
        /\ TcpDnsSettle(ok)
        /\ UNCHANGED <<now, aggVars, pendVars, notTcp>>

TcpWriteDone ==
    /\ conn.pc = "writing"
    /\ TcpHeaderWritten
    /\ UNCHANGED <<now, notTcp>>

\* the backend sends its next chunk: it waits in destSocket's buffer
TcpBackendSend ==
    /\ conn.destConnected /\ ~conn.closed
    /\ conn.dsent < MaxChunks
    /\ conn' = [conn EXCEPT !.dsent = @ + 1,
                            !.dbuf = Append(@, [id |-> conn.dsent + 1, chain |-> <<>>])]
    /\ UNCHANGED <<now, aggVars, pendVars, notTcp>>

\* destSocket flows once it is piped to the client
TcpBackendEmit ==
    /\ conn.piped /\ ~conn.closed
    /\ conn.dbuf # <<>>
    /\ TcpBackendData
    /\ UNCHANGED <<now, aggVars, pendVars, notTcp>>

\* the client socket closes, at any time after it was accepted
TcpClose ==
    /\ conn.pc # "listening" /\ ~conn.closed
    /\ TcpClientClose
    /\ UNCHANGED <<now, aggVars, pendVars, notTcp>>

TcpNext ==
    \/ TcpAccept
    \/ TcpClientSend
    \/ TcpEmit
    \/ TcpBackendSend
    \/ TcpBackendEmit
    \/ TcpClose
    \/ TcpConnect
    \/ TcpConnectFail
    \/ TcpDnsDone
    \/ TcpWriteDone

SpecTcp == TcpSpecInit /\ [][TcpNext]_vars

-----------------------------------------------------------------------------
(* Properties of the TCP forwarder.                                        *)

IsData(item) == item.kind = "data"

IsHeader(item) == item.kind = "header"

\* the client chunks the backend was written, in order
Delivered == LET d == SelectSeq(conn.written, IsData) IN [i \in 1..Len(d) |-> d[i].id]

\* the client chunks still in the stream's buffer
Buffered == [i \in 1..Len(conn.rbuf) |-> conn.rbuf[i].id]

\* a chunk the once-listener holds that the backend has not been written
Captured ==
    IF conn.firstChunk # NoChunk /\ conn.firstChunk.id \notin Range(Delivered)
    THEN <<conn.firstChunk.id>>
    ELSE <<>>

\* C1: with haproxy on and the backend connected, what the backend is
\* written starts with the one PPv2 header: no client byte comes before it
C1_HeaderBeforeClientBytes ==
    (rule.haproxy /\ conn.destConnected) =>
        /\ conn.written # <<>> => IsHeader(conn.written[1])
        /\ Len(SelectSeq(conn.written, IsHeader)) <= 1
        /\ conn.piped => conn.written # <<>>

\* C2: the backend is written the client's chunks once each and in the
\* client's order, and no chunk is lost, on every path of the connect callback
C2_ClientBytesExactlyOnce ==
    /\ Delivered = [i \in 1..Len(Delivered) |-> i]
    /\ conn.pc # "ended" => Delivered \o Captured \o Buffered = [i \in 1..conn.sent |-> i]

\* the catch path was taken with a chunk sent before the backend connected;
\* the once-listener has seen it and every chunk reached the backend
C2_Witness ==
    /\ conn.caught
    /\ conn.early >= 1
    /\ conn.firstChunk # NoChunk
    /\ conn.sent >= 2
    /\ Delivered = [i \in 1..conn.sent |-> i]

\* C17 (as claimed): the connection causes at most one notification call;
\* once the backend is connected and the client is piped to it, with a
\* non-blank webhook, exactly one call was made - addPending in correlation
\* mode, add_connect otherwise - with the derived original ip and port;
\* with no webhook, or no backend connection, no call is made.
C17_OneWebhookEvent ==
    /\ Cardinality(ConnectAdds) + Cardinality(PendingAdds) <= 1
    /\ (HasWebhook /\ conn.destConnected /\ conn.piped) =>
          IF useRestApi
          THEN /\ ConnectAdds = {}
               /\ Cardinality(PendingAdds) = 1
               /\ PendingHas(pending, PendingKey(conn.proxy.ip.text, conn.proxy.port, "TCP"))
          ELSE /\ PendingAdds = {}
               /\ \E i \in ConnectAdds :
                     /\ ConnectAdds = {i}
                     /\ aggHist[i].ip = conn.proxy.ip.text
                     /\ aggHist[i].port = conn.proxy.port
    /\ (~HasWebhook \/ ~conn.destConnected) => (ConnectAdds = {} /\ PendingAdds = {})

\* the first chunk the client sent: the once-listener holds it, or it still
\* waits in the stream's buffer
FirstSent ==
    IF conn.firstChunk # NoChunk THEN conn.firstChunk
    ELSE IF conn.rbuf # <<>> THEN conn.rbuf[1] ELSE NoChunk

\* C25: the client's first bytes, sent before the backend connected, are a
\* PPv2 chain followed by a payload; with haproxy on (and the encoder not
\* raising) the header the backend is written carries the source address
\* and port of the chain's last header, not the socket peer, and what the
\* backend is written after it is the payload without the inbound chain.
C25_UpstreamSourceAdopted ==
    (rule.haproxy /\ conn.destConnected /\ ~conn.caught /\ conn.early >= 1
        /\ FirstSent.chain # <<>> /\ conn.written # <<>>) =>
        LET last == FirstSent.chain[Len(FirstSent.chain)]
        IN  /\ IsHeader(conn.written[1])
            /\ conn.written[1].hdr.src = last.sourceAddress.text
            /\ conn.written[1].hdr.srcPort = last.sourcePort
            /\ Len(conn.written) >= 2 =>
                  /\ IsData(conn.written[2])
                  /\ conn.written[2].id = FirstSent.id
                  /\ conn.written[2].chain = <<>>


\* the bytes of the chunks in a sequence of writes
RECURSIVE RelayedBytes(_)
RelayedBytes(w) ==
    IF w = <<>> THEN 0
    ELSE (IF Head(w).kind = "data" THEN ChunkLength(Head(w)) ELSE 0) + RelayedBytes(Tail(w))

\* C31: when the client socket has closed on a connection whose backend had
\* connected, with the header enabled or not, the totals printed are the
\* bytes written to the backend from the client and the bytes written to the
\* client from the backend; when the backend had not connected nothing is
\* printed, and a connection that relayed bytes has its totals printed.
C31_TotalsEqualRelayed ==
    conn.closed =>
        /\ conn.log.shown =>
              /\ conn.log.sent = RelayedBytes(conn.written)
              /\ conn.log.recv = RelayedBytes(conn.toClient)
        /\ ~conn.log.shown => conn.log = NoLog
        /\ ~conn.destConnected => ~conn.log.shown
        /\ RelayedBytes(conn.written) + RelayedBytes(conn.toClient) > 0 => conn.log.shown

-----------------------------------------------------------------------------
(* Specification of the codec alone: the arguments of one encoder call are *)
(* drawn at start; the header is encoded, decoded on its own, put on the   *)
(* wire behind other headers and in front of a payload, and the wire is    *)
(* parsed as a chain.                                                      *)

MaxLayers == 2

\* Address texts; `canon` is the address as the decoder prints it in its own
\* family, `mapped` an IPv4 address as the INET6 layout would carry it
\* (::ffff:a.b.c.d, RFC 4291), empty for an IPv6 address.
\* 198.51.100.7: a client's IPv4 address
TextV4 ==
    [text |-> <<"1", "9", "8", ".", "5", "1", ".", "1", "0", "0", ".", "7">>,
     canon |-> <<"1", "9", "8", ".", "5", "1", ".", "1", "0", "0", ".", "7">>,
     mapped |-> <<"0", ":", "0", ":", "0", ":", "0", ":", "0", ":", "f", "f", "f", "f", ":", "c", "6", "3", "3", ":", "6", "4", "0", "7">>]

\* 127.0.0.1: the target of scenario S1
TextLoopback ==
    [text |-> <<"1", "2", "7", ".", "0", ".", "0", ".", "1">>,
     canon |-> <<"1", "2", "7", ".", "0", ".", "0", ".", "1">>,
     mapped |-> <<"0", ":", "0", ":", "0", ":", "0", ":", "0", ":", "f", "f", "f", "f", ":", "7", "f", "0", "0", ":", "1">>]

\* ::ffff:198.51.100.7: the same client as a dual-stack socket reports it
TextMapped ==
    [text |-> <<":", ":", "f", "f", "f", "f", ":", "1", "9", "8", ".", "5", "1", ".", "1", "0", "0", ".", "7">>,
     canon |-> <<"1", "9", "8", ".", "5", "1", ".", "1", "0", "0", ".", "7">>,
     mapped |-> <<"0", ":", "0", ":", "0", ":", "0", ":", "0", ":", "f", "f", "f", "f", ":", "c", "6", "3", "3", ":", "6", "4", "0", "7">>]

\* 2001:db8::1: the client of scenario S3
TextV6 ==
    [text |-> <<"2", "0", "0", "1", ":", "d", "b", "8", ":", ":", "1">>,
     canon |-> <<"2", "0", "0", "1", ":", "d", "b", "8", ":", "0", ":", "0", ":", "0", ":", "0", ":", "0", ":", "1">>,
     mapped |-> <<>>]

\* 2001:db8:0:0:0:0:0:1: the same address written in full
TextV6Full ==
    [text |-> <<"2", "0", "0", "1", ":", "d", "b", "8", ":", "0", ":", "0", ":", "0", ":", "0", ":", "0", ":", "1">>,
     canon |-> <<"2", "0", "0", "1", ":", "d", "b", "8", ":", "0", ":", "0", ":", "0", ":", "0", ":", "0", ":", "1">>,
     mapped |-> <<>>]

\* fd00::9: an IPv6 target
TextV6Target ==
    [text |-> <<"f", "d", "0", "0", ":", ":", "9">>,
     canon |-> <<"f", "d", "0", "0", ":", "0", ":", "0", ":", "0", ":", "0", ":", "0", ":", "0", ":", "9">>,
     mapped |-> <<>>]

\* decaf1.local: a host name left unresolved: parseInt gives 0xdecaf1 for it
TextHexName == [text |-> <<"d", "e", "c", "a", "f", "1", ".", "l", "o", "c", "a", "l">>, canon |-> <<>>, mapped |-> <<>>]

\* 12345::1: an address text with a group above 0xffff
TextBigGroup == [text |-> <<"1", "2", "3", "4", "5", ":", ":", "1">>, canon |-> <<>>, mapped |-> <<>>]

\* 2001:db8::zz: an address text with a group that is no number
TextBadGroup == [text |-> <<"2", "0", "0", "1", ":", "d", "b", "8", ":", ":", "z", "z">>, canon |-> <<>>, mapped |-> <<>>]

CodecSources == {TextV4, TextMapped, TextV6, TextV6Full, TextBigGroup, TextBadGroup}

CodecDests == {TextLoopback, TextV6Target, TextHexName, TextMapped}

\* source ports on both sides of 0x8000, so that both bytes matter
CodecSourcePorts == {55555, 30000}

CodecDestPorts == {9000, 19132}

\* "HELLO"
Hello == <<72, 69, 76, 76, 79>>

\* payloads: none, "HELLO", and the signature followed by one byte
Tails == {<<>>, Hello, PROXY_V2_SIGNATURE \o <<33>>}

\* what follows the intact headers on the wire, made of one more header:
\* nothing, its first 12 or 20 bytes, the header with the last signature
\* byte cleared, with version nibble 1, or with family and transport UNSPEC
Damages == {"none", "cut12", "cut20", "nosig", "version1", "unspec"}

Damaged(kind, h) ==
    CASE kind = "none" -> <<>>
      [] kind = "cut12" -> SubSeq(h, 1, 12)
      [] kind = "cut20" -> SubSeq(h, 1, 20)
      [] kind = "nosig" -> [h EXCEPT ![12] = 0]
      [] kind = "version1" -> [h EXCEPT ![13] = 17]
      [] kind = "unspec" -> [h EXCEPT ![14] = 0]

\* short chains with every ending
ShortWires ==
    {[layers |-> n, damage |-> d, tail |-> t] : n \in 0..MaxLayers, d \in Damages, t \in Tails}

\* chains at and past the guard of parseProxyV2Chain
LongWires == {[layers |-> n, damage |-> "none", tail |-> Hello] : n \in {MAX_ITER, MAX_ITER + 1}}

\* the wires tried for the call c: the long ones for the scenario's client
\* and target only
WireShapes(c) ==
    IF c.src = TextV4 /\ c.dst = TextLoopback THEN ShortWires \cup LongWires ELSE ShortWires

CodecSpecInit ==
    /\ ClockInit /\ AggregatorInit /\ BufferInit /\ ConfigNone /\ UdpInit /\ TcpInit
    /\ MapperInit /\ PersistOff /\ ApiOff
    /\ codec \in {[NoCodec EXCEPT !.pc = "args", !.src = s, !.dst = d, !.udp = u,
                                  !.sport = sp, !.dport = dp] :
                      s \in CodecSources, d \in CodecDests, u \in BOOLEAN,
                      sp \in CodecSourcePorts, dp \in CodecDestPorts}

notCodec == <<now, aggVars, pendVars, cfgVars, udpVars, tcpVars, mapVars, ipVars, apiVars>>

\* the i-th header of the wire: the same call with source port sport + i - 1
Layer(c, i) ==
    generateProxyProtocolV2Header(c.src.text, c.sport + i - 1, c.dst.text, c.dport, c.udp).bytes

\* the call returned, or raised
Returned(c, out) == [c EXCEPT !.out = out, !.pc = IF out.threw THEN "threw" ELSE "encoded"]

CodecEncode ==
    /\ codec.pc = "args"
    /\ codec' = Returned(codec, generateProxyProtocolV2Header(codec.src.text, codec.sport,
                                                              codec.dst.text, codec.dport, codec.udp))
    /\ UNCHANGED notCodec

CodecDecode ==
    /\ codec.pc = "encoded"
    /\ codec' = [codec EXCEPT !.one = parseProxyV2(codec.out.bytes), !.pc = "decoded"]
    /\ UNCHANGED notCodec

\* w.layers headers, what is left of one more, the payload
Wire(w, hs) == Flatten(SubSeq(hs, 1, w.layers)) \o Damaged(w.damage, hs[w.layers + 1]) \o w.tail

CodecWire ==
    /\ codec.pc = "decoded"
    /\ \E w \in WireShapes(codec) :
          codec' = [codec EXCEPT
                       !.layers = w.layers, !.damage = w.damage, !.tail = w.tail,
                       !.data = Wire(w, [i \in 1..(w.layers + 1) |-> Layer(codec, i)]),
                       !.pc = "wire"]
    /\ UNCHANGED notCodec

CodecParse ==
    /\ codec.pc = "wire"
    /\ codec' = [codec EXCEPT !.first = parseProxyV2(codec.data),
                              !.chain = parseProxyV2Chain(codec.data),
                              !.pc = "parsed"]
    /\ UNCHANGED notCodec

CodecNext ==
    \/ CodecEncode
    \/ CodecDecode
    \/ CodecWire
    \/ CodecParse

SpecCodec == CodecSpecInit /\ [][CodecNext]_vars

-----------------------------------------------------------------------------
(* Properties of the codec.                                                *)

\* the call was made and returned a header that was decoded
Decoded == codec.pc \in {"decoded", "wire", "parsed"}

\* an address text that is an IP literal
ValidAddress(a) == a.canon # <<>>

\* the family the encoder is to choose: INET6 when the normalized source
\* holds a colon
SourceInet6 == ":" \in Range(IF ValidAddress(codec.src) THEN codec.src.canon ELSE codec.src.text)

\* the destination as the chosen family carries it; an IPv6 destination has
\* no place in the INET layout
DestInFamily ==
    IF SourceInet6 /\ codec.dst.mapped # <<>> THEN codec.dst.mapped ELSE codec.dst.canon

Representable == SourceInet6 \/ codec.dst.mapped # <<>>

\* the signature, byte by byte
HasSignature(d) == Len(d) >= 12 /\ \A i \in 1..12 : d[i] = PROXY_V2_SIGNATURE[i]

\* d starts with a complete header: the signature, the fixed 16 bytes, and
\* as many bytes as bytes 14-15 advertise
Complete(d) == HasSignature(d) /\ Len(d) >= 16 /\ Len(d) >= 16 + d[15] * 256 + d[16]

\* C22: for valid source and destination addresses (a destination the
\* source's family can carry), parseProxyV2 of the encoded header gives the
\* source address and port, the destination address and port, the family of
\* the source, DGRAM for UDP and STREAM otherwise, and headerLength equal to
\* the length of the encoded header; an IPv4-mapped address counts as its
\* dotted quad, and an address is compared by value, not by notation.
C22_RoundTrip ==
    (Decoded /\ ValidAddress(codec.src) /\ ValidAddress(codec.dst) /\ Representable) =>
        /\ codec.one # <<>>
        /\ codec.one[1].family = IF SourceInet6 THEN "INET6" ELSE "INET"
        /\ codec.one[1].protocol = IF codec.udp THEN "DGRAM" ELSE "STREAM"
        /\ codec.one[1].sourceAddress = codec.src.canon
        /\ codec.one[1].sourcePort = codec.sport
        /\ codec.one[1].destAddress = DestInFamily
        /\ codec.one[1].destPort = codec.dport
        /\ codec.one[1].headerLength = Len(codec.out.bytes)

\* the header length of the call's family
HeaderLength == Len(codec.out.bytes)

\* what follows the intact headers on the wire
Rest == SubSeq(codec.data, codec.layers * HeaderLength + 1, Len(codec.data))

C24_NoHeaderNoError ==
    (codec.pc = "parsed" /\ ~Complete(codec.data)) =>
        /\ codec.first = <<>>
        /\ codec.chain.headers = <<>>
        /\ codec.chain.payload = codec.data

\* C24 witness: the signature and 20 of the 28 bytes the header advertises,
\* followed by "HELLO": 25 bytes, all of them payload
C24_Witness ==
    /\ codec.pc = "parsed"
    /\ HasSignature(codec.data) /\ Len(codec.data) >= 16
    /\ Len(codec.data) < 16 + codec.data[15] * 256 + codec.data[16]
    /\ codec.tail = Hello
    /\ codec.first = <<>> /\ codec.chain.headers = <<>> /\ codec.chain.payload = codec.data

\* C27: bytes that carry the signature and a version nibble other than 2
\* are not accepted: parseProxyV2 returns null for them, the chain parse
\* returns no header for them, and so no original client comes from them;
\* every header a chain returns has version 2.
C27_OnlyVersion2 ==
    codec.pc = "parsed" =>
        /\ (HasSignature(codec.data) /\ Len(codec.data) >= 13 /\ codec.data[13] \div 16 # 2) =>
              /\ codec.first = <<>>
              /\ codec.chain.headers = <<>>
              /\ getOriginalClientFromHeaders(codec.chain.headers) = <<>>
        /\ \A i \in 1..Len(codec.chain.headers) : codec.chain.headers[i].version = 2

\* C28: the encoder returns one buffer of 16 + AL bytes, AL = 12 for INET
\* and 36 for INET6: the signature, 0x21, the family nibble and the
\* transport nibble, AL big-endian, then source and destination in the
\* family's layout with the ports in its last four bytes; the family is
\* INET6 exactly when the normalized source holds a colon.
C28_EncodedLayout ==
    codec.pc # "args" =>
        /\ ~codec.out.threw
        /\ LET b == codec.out.bytes
               AL == IF SourceInet6 THEN 36 ELSE 12
           IN  /\ Len(b) = 16 + AL
               /\ SubSeq(b, 1, 12) = PROXY_V2_SIGNATURE
               /\ b[13] = 33
               /\ b[14] = (IF SourceInet6 THEN 32 ELSE 16) + (IF codec.udp THEN 2 ELSE 1)
               /\ b[15] = 0 /\ b[16] = AL
               /\ b[16 + AL - 3] * 256 + b[16 + AL - 2] = codec.sport
               /\ b[16 + AL - 1] * 256 + b[16 + AL] = codec.dport
               /\ ValidAddress(codec.src) =>
                     codec.src.canon = IF SourceInet6 THEN formatIPv6(SubSeq(b, 17, 32))
                                       ELSE formatIPv4(b, 16)

\* C29: the encoder raises for no address text: a group above 0xFFFF and a
\* group that is no number are written as 0, and the header has the length
\* of its family.
C29_EncodeNeverFails ==
    codec.pc # "args" =>
        /\ ~codec.out.threw
        /\ Len(codec.out.bytes) = IF SourceInet6 THEN 52 ELSE 28
        /\ codec.src = TextBadGroup => SubSeq(codec.out.bytes, 31, 32) = <<0, 0>>
        /\ codec.src = TextBigGroup => SubSeq(codec.out.bytes, 17, 18) = <<0, 0>>

====
